---- MODULE Spec2Model ----
(***************************************************************************)
(* Treemap layout engine of prism (src/src/treemap.h): geometry            *)
(* predicates, Row builder, layoutrow, squarify, layout_tree_traversal     *)
(* and layout, run over MockTreeNode trees (src/tests/test_layout.cpp).    *)
(*                                                                         *)
(* Numbers.  float and double are IEEE-754 binary32 and binary64, each     *)
(* operation rounded to nearest, ties to even, as the code's operators are *)
(* on a build that evaluates float expressions in float.  A finite float   *)
(* is s * m * 2^e with m odd and below 2^24; a finite double is            *)
(* s * (hi * 2^26 + lo) * 2^e with the 53-bit significand left-aligned.    *)
(* Infinities and NaN follow IEEE-754 (x/0, 0/0, 0*inf, inf/inf,           *)
(* comparisons with NaN).  The exponent is not bounded: the values of the  *)
(* model stay far from overflow and underflow.  Zero carries no sign: no   *)
(* non-zero value is ever divided by a zero that could be negative.        *)
(***************************************************************************)
EXTENDS Integers, Sequences, FiniteSets, TLC

(***************************************************************************)
(* Bounds of the model                                                     *)
(***************************************************************************)
MaxNodes == 4
MaxLeafSize == 2
MaxDim == 2
MaxOffset == 1
MaxItems == 2

(***************************************************************************)
(* float: s * m * 2^e with m odd and below 2^24, or zero                   *)
(***************************************************************************)
RECURSIVE BitLen(_)
\* the number of bits of the natural m
BitLen(m) ==
    IF m >= 65536 THEN 16 + BitLen(m \div 65536)
    ELSE IF m >= 256 THEN 8 + BitLen(m \div 256)
    ELSE IF m >= 16 THEN 4 + BitLen(m \div 16)
    ELSE IF m >= 4 THEN 2 + BitLen(m \div 4)
    ELSE IF m >= 2 THEN 2
    ELSE m

RECURSIVE TrailingZeros(_)
\* the number of trailing zero bits of the positive natural m
TrailingZeros(m) ==
    IF m % 65536 = 0 THEN 16 + TrailingZeros(m \div 65536)
    ELSE IF m % 256 = 0 THEN 8 + TrailingZeros(m \div 256)
    ELSE IF m % 16 = 0 THEN 4 + TrailingZeros(m \div 16)
    ELSE IF m % 4 = 0 THEN 2 + TrailingZeros(m \div 4)
    ELSE IF m % 2 = 0 THEN 1
    ELSE 0

NaN == [k |-> "nan", s |-> 1, m |-> 0, e |-> 0]
Inf(s) == [k |-> "inf", s |-> s, m |-> 0, e |-> 0]
FZero == [k |-> "num", s |-> 1, m |-> 0, e |-> 0]

\* the float s * m * 2^e, m a natural of at most 24 significant bits
Canon(s, m, e) ==
    IF m = 0 THEN FZero
    ELSE LET z == TrailingZeros(m)
         IN  [k |-> "num", s |-> s, m |-> m \div 2^z, e |-> e + z]

\* the float of the integer i, |i| < 2^24
F(i) == Canon(IF i < 0 THEN -1 ELSE 1, IF i < 0 THEN -i ELSE i, 0)

IsNaN(a) == a.k = "nan"
IsInf(a) == a.k = "inf"
IsNum(a) == a.k = "num"
IsZero(a) == a.k = "num" /\ a.m = 0

\* s * (m + f) * 2^e rounded to nearest, ties to even, to p significant bits;
\* sticky tells that the fraction f, 0 <= f < 1, is not 0 (m then has more
\* than p bits)
RoundTo(p, s, m, e, sticky) ==
    LET sh == BitLen(m) - p
    IN  IF sh <= 0 THEN Canon(s, m, e)
        ELSE LET q == m \div 2^sh
                 r == m % 2^sh
                 half == 2^(sh - 1)
                 up == r > half \/ (r = half /\ (sticky \/ q % 2 = 1))
             IN  Canon(s, IF up THEN q + 1 ELSE q, e + sh)

FNeg(a) == IF IsNaN(a) \/ IsZero(a) THEN a ELSE [a EXCEPT !.s = -a.s]

\* x + y for finite non-zero x, y with x.e >= y.e
AddOrdered(x, y) ==
    LET d == x.e - y.e
        lx == BitLen(x.m)
    IN  IF d + lx <= 30
        THEN LET v == x.s * x.m * 2^d + y.s * y.m
             IN  IF v < 0 THEN RoundTo(24, -1, -v, y.e, FALSE)
                 ELSE RoundTo(24, 1, v, y.e, FALSE)
        ELSE LET ka == 29 - lx
                 sh == d - ka
                 big == x.m * 2^ka
                 small == IF sh > 24 THEN 0 ELSE y.m \div 2^sh
             IN  RoundTo(24, x.s,
                         IF x.s = y.s THEN big + small ELSE big - small - 1,
                         x.e - ka, TRUE)

FAdd(a, b) ==
    IF IsNaN(a) \/ IsNaN(b) THEN NaN
    ELSE IF IsInf(a) /\ IsInf(b) THEN (IF a.s = b.s THEN a ELSE NaN)
    ELSE IF IsInf(a) THEN a
    ELSE IF IsInf(b) THEN b
    ELSE IF IsZero(a) THEN b
    ELSE IF IsZero(b) THEN a
    ELSE IF a.e >= b.e THEN AddOrdered(a, b)
    ELSE AddOrdered(b, a)

FSub(a, b) == FAdd(a, FNeg(b))

\* the product of the naturals x, y < 2^24 as <<H, L>>, x * y = H * 2^24 + L
MulWide(x, y) ==
    LET x1 == x \div 4096
        x0 == x % 4096
        y1 == y \div 4096
        y0 == y % 4096
        mid == x1 * y0 + x0 * y1
        low == x0 * y0 + (mid % 4096) * 4096
    IN  <<x1 * y1 + mid \div 4096 + low \div 16777216, low % 16777216>>

FMul(a, b) ==
    IF IsNaN(a) \/ IsNaN(b) THEN NaN
    ELSE IF IsInf(a) \/ IsInf(b)
         THEN (IF IsZero(a) \/ IsZero(b) THEN NaN ELSE Inf(a.s * b.s))
    ELSE IF IsZero(a) \/ IsZero(b) THEN FZero
    ELSE LET w == MulWide(a.m, b.m)
             lh == BitLen(w[1])
             kk == IF lh <= 6 THEN 24 ELSE 30 - lh
         IN  RoundTo(24, a.s * b.s,
                     w[1] * 2^kk + w[2] \div 2^(24 - kk),
                     a.e + b.e + (24 - kk),
                     w[2] % 2^(24 - kk) # 0)

RECURSIVE DivLoop(_, _, _, _)
\* long division, 7 quotient bits a step, until 25 bits or no remainder
DivLoop(q, r, mb, e) ==
    IF r = 0 \/ q >= 16777216 THEN <<q, r, e>>
    ELSE DivLoop(q * 128 + (r * 128) \div mb, (r * 128) % mb, mb, e - 7)

FDiv(a, b) ==
    IF IsNaN(a) \/ IsNaN(b) THEN NaN
    ELSE IF IsInf(a) THEN (IF IsInf(b) THEN NaN ELSE Inf(a.s * b.s))
    ELSE IF IsInf(b) THEN FZero
    ELSE IF IsZero(b) THEN (IF IsZero(a) THEN NaN ELSE Inf(a.s))
    ELSE IF IsZero(a) THEN FZero
    ELSE LET d == DivLoop(a.m \div b.m, a.m % b.m, b.m, a.e - b.e)
         IN  RoundTo(24, a.s * b.s, d[1], d[3], d[2] # 0)

\* |a| < |b| for finite non-zero a, b
MagLt(a, b) ==
    LET la == BitLen(a.m)
        lb == BitLen(b.m)
    IN  IF la + a.e # lb + b.e THEN la + a.e < lb + b.e
        ELSE a.m * 2^(24 - la) < b.m * 2^(24 - lb)

\* a < b; false when either is NaN
FLt(a, b) ==
    IF IsNaN(a) \/ IsNaN(b) THEN FALSE
    ELSE IF IsInf(a) THEN a.s = -1 /\ b # a
    ELSE IF IsInf(b) THEN b.s = 1
    ELSE IF IsZero(a) THEN ~IsZero(b) /\ b.s = 1
    ELSE IF IsZero(b) THEN a.s = -1
    ELSE IF a.s # b.s THEN a.s = -1
    ELSE IF a.s = 1 THEN MagLt(a, b)
    ELSE MagLt(b, a)

\* a == b; false when either is NaN
FEq(a, b) == ~IsNaN(a) /\ ~IsNaN(b) /\ a = b

FLe(a, b) == FLt(a, b) \/ FEq(a, b)
FGe(a, b) == FLe(b, a)

\* std::max(a, b) is (a < b) ? b : a, std::min(a, b) is (b < a) ? b : a
FMax(a, b) == IF FLt(a, b) THEN b ELSE a
FMin(a, b) == IF FLt(b, a) THEN b ELSE a

(***************************************************************************)
(* double: s * (hi * 2^26 + lo) * 2^e with 2^52 <= hi * 2^26 + lo < 2^53   *)
(***************************************************************************)
DZero == [k |-> "num", s |-> 1, hi |-> 0, lo |-> 0, e |-> 0]
DNaN == [k |-> "nan", s |-> 1, hi |-> 0, lo |-> 0, e |-> 0]
DInf(s) == [k |-> "inf", s |-> s, hi |-> 0, lo |-> 0, e |-> 0]
Limb == 67108864

\* the double s * (hi * 2^26 + lo + f) * 2^e rounded to nearest, ties to
\* even; hi < 2^31, lo < 2^26, and sticky tells that the fraction f is not 0
\* (the number then has more than 53 bits)
RoundPair(s, hi, lo, e, sticky) ==
    IF hi = 0 /\ lo = 0 THEN DZero
    ELSE LET len == IF hi = 0 THEN BitLen(lo) ELSE 26 + BitLen(hi)
             sh == len - 53
         IN  IF sh <= 0
             THEN LET t == -sh
                  IN  IF t >= 26
                      THEN [k |-> "num", s |-> s,
                            hi |-> (IF hi = 0 THEN 0 ELSE hi * 2^t)
                                   + lo * 2^(t - 26),
                            lo |-> 0, e |-> e - t]
                      ELSE [k |-> "num", s |-> s,
                            hi |-> hi * 2^t + lo \div 2^(26 - t),
                            lo |-> (lo % 2^(26 - t)) * 2^t, e |-> e - t]
             ELSE LET qh == hi \div 2^sh
                      ql == (hi % 2^sh) * 2^(26 - sh) + lo \div 2^sh
                      r == lo % 2^sh
                      half == 2^(sh - 1)
                      up == r > half \/ (r = half /\ (sticky \/ ql % 2 = 1))
                      ql1 == IF up THEN ql + 1 ELSE ql
                      qh1 == IF ql1 = Limb THEN qh + 1 ELSE qh
                  IN  IF qh1 = 2 * Limb
                      THEN [k |-> "num", s |-> s, hi |-> Limb, lo |-> 0,
                            e |-> e + sh + 1]
                      ELSE [k |-> "num", s |-> s, hi |-> qh1,
                            lo |-> ql1 % Limb, e |-> e + sh]

\* static_cast<double>(float)
ToDouble(a) ==
    IF IsNaN(a) THEN DNaN
    ELSE IF IsInf(a) THEN DInf(a.s)
    ELSE RoundPair(a.s, 0, a.m, a.e, FALSE)

\* static_cast<float>(double)
ToFloat(a) ==
    IF IsNaN(a) THEN NaN
    ELSE IF IsInf(a) THEN Inf(a.s)
    ELSE IF a.hi = 0 THEN FZero
    ELSE LET q == a.hi \div 8
             r == (a.hi % 8) * Limb + a.lo
             up == r > 268435456 \/ (r = 268435456 /\ q % 2 = 1)
         IN  Canon(a.s, IF up THEN q + 1 ELSE q, a.e + 29)

\* one step of the long division by bh:bl, four quotient bits: st is
\* <<steps left, rh, rl, qh, ql>>, the remainder rh:rl below bh:bl
DivStep(st, bh, bl) ==
    LET xl == (16 * st[3]) % Limb
        xh == 16 * st[2] + (16 * st[3]) \div Limb
        est == IF xh \div bh > 15 THEN 15 ELSE xh \div bh
        over == est * bh + (est * bl) \div Limb > xh
                \/ (est * bh + (est * bl) \div Limb = xh
                    /\ (est * bl) % Limb > xl)
        digit == IF over THEN est - 1 ELSE est
        pl == (digit * bl) % Limb
        ph == digit * bh + (digit * bl) \div Limb
        q2 == 16 * st[5] + digit
    IN  <<st[1] - 1,
          IF xl >= pl THEN xh - ph ELSE xh - ph - 1,
          IF xl >= pl THEN xl - pl ELSE xl + Limb - pl,
          16 * st[4] + q2 \div Limb, q2 % Limb>>

RECURSIVE DivDigits(_, _, _)
\* the long division run to its last step
DivDigits(st, bh, bl) ==
    IF st[1] = 0 THEN st ELSE DivDigits(DivStep(st, bh, bl), bh, bl)

DDiv(a, b) ==
    IF IsNaN(a) \/ IsNaN(b) THEN DNaN
    ELSE IF IsInf(a) THEN (IF IsInf(b) THEN DNaN ELSE DInf(a.s * b.s))
    ELSE IF IsInf(b) THEN DZero
    ELSE IF b.hi = 0 THEN (IF a.hi = 0 THEN DNaN ELSE DInf(a.s))
    ELSE IF a.hi = 0 THEN DZero
    ELSE LET ge == a.hi > b.hi \/ (a.hi = b.hi /\ a.lo >= b.lo)
             rl == IF ~ge THEN a.lo ELSE IF a.lo >= b.lo THEN a.lo - b.lo
                   ELSE a.lo + Limb - b.lo
             rh == IF ~ge THEN a.hi ELSE IF a.lo >= b.lo THEN a.hi - b.hi
                   ELSE a.hi - b.hi - 1
             d == DivDigits(<<14, rh, rl, 0, IF ge THEN 1 ELSE 0>>,
                            b.hi, b.lo)
         IN  RoundPair(a.s * b.s, d[4], d[5], a.e - b.e - 56,
                       d[2] # 0 \/ d[3] # 0)

\* one step of the digit-by-digit square root: st is
\* <<steps left, wh, wl, rh, rl, qh, ql>>, wh:wl the bits of the radicand
\* still to bring down (54 bits wide), rh:rl the remainder, qh:ql the root
SqrtStep(st) ==
    LET r0 == 4 * st[5] + st[2] \div Limb
        xl == r0 % Limb
        xh == 4 * st[4] + r0 \div Limb
        t0 == 4 * st[7] + 1
        tl == t0 % Limb
        th == 4 * st[6] + t0 \div Limb
        ge == xh > th \/ (xh = th /\ xl >= tl)
        dl == IF ~ge THEN xl ELSE IF xl >= tl THEN xl - tl
              ELSE xl + Limb - tl
        dh == IF ~ge THEN xh ELSE IF xl >= tl THEN xh - th
              ELSE xh - th - 1
        q2 == 2 * st[7] + (IF ge THEN 1 ELSE 0)
    IN  <<st[1] - 1,
          (st[2] % Limb) * 4 + st[3] \div 16777216,
          (st[3] % 16777216) * 4,
          dh, dl, 2 * st[6] + q2 \div Limb, q2 % Limb>>

RECURSIVE SqrtBits(_, _)
\* the square root run from st until `left` steps are left, the span of
\* steps halved at each level
SqrtBits(st, left) ==
    IF st[1] = left THEN st
    ELSE IF st[1] = left + 1 THEN SqrtStep(st)
    ELSE SqrtBits(SqrtBits(st, (st[1] + left) \div 2), left)

\* std::sqrt(double)
DSqrt(a) ==
    IF IsNaN(a) THEN DNaN
    ELSE IF IsInf(a) THEN (IF a.s = 1 THEN a ELSE DNaN)
    ELSE IF a.hi = 0 THEN DZero
    ELSE IF a.s = -1 THEN DNaN
    ELSE LET even == a.e % 2 = 0
             wh == IF even THEN a.hi ELSE 2 * a.hi + (2 * a.lo) \div Limb
             wl == IF even THEN a.lo ELSE (2 * a.lo) % Limb
             ee == IF even THEN a.e ELSE a.e - 1
             d == SqrtBits(<<54, wh, wl, 0, 0, 0, 0>>, 0)
         IN  RoundPair(1, d[6], d[7], (ee - 54) \div 2, d[4] # 0 \/ d[5] # 0)

\* the product of the naturals x < 2^24 and y < 2^27 as <<H, L>>,
\* x * y = H * 2^26 + L
MulLimb(x, y) ==
    LET x1 == x \div 8192
        x0 == x % 8192
        y1 == y \div 8192
        y0 == y % 8192
        mid == x1 * y0 + x0 * y1
        low == x0 * y0 + (mid % 8192) * 8192
    IN  <<x1 * y1 + mid \div 8192 + low \div Limb, low % Limb>>

\* float * double, the float promoted to double
DMulF(f, b) ==
    IF IsNaN(f) \/ IsNaN(b) THEN DNaN
    ELSE IF IsInf(f) \/ IsInf(b)
         THEN (IF IsZero(f) \/ (IsNum(b) /\ b.hi = 0) THEN DNaN
               ELSE DInf(f.s * b.s))
    ELSE IF IsZero(f) \/ b.hi = 0 THEN DZero
    ELSE LET ph == MulLimb(f.m, b.hi)
             pl == MulLimb(f.m, b.lo)
             mid == ph[2] + pl[1]
             p2 == ph[1] + mid \div Limb
             p1 == mid % Limb
             p0 == pl[2]
             sh == IF BitLen(p2) <= 2 THEN 0 ELSE BitLen(p2) - 2
         IN  RoundPair(f.s * b.s,
                       p2 * 2^(26 - sh) + p1 \div 2^sh,
                       (p1 % 2^sh) * 2^(26 - sh) + p0 \div 2^sh,
                       f.e + b.e + sh,
                       p0 % 2^sh # 0)

\* hi:lo shifted right by n bits, as <<hi, lo, sticky>>
ShrPair(hi, lo, n) ==
    IF n = 0 THEN <<hi, lo, FALSE>>
    ELSE IF n < 26
    THEN <<hi \div 2^n, (hi % 2^n) * 2^(26 - n) + lo \div 2^n, lo % 2^n # 0>>
    ELSE IF n < 57
    THEN <<(hi \div 2^(n - 26)) \div Limb, (hi \div 2^(n - 26)) % Limb,
           (hi % 2^(n - 26)) # 0 \/ lo # 0>>
    ELSE <<0, 0, TRUE>>

\* x + y for finite non-zero doubles x, y with x.e >= y.e
DAddOrdered(x, y) ==
    LET xs == <<8 * x.hi + (8 * x.lo) \div Limb, (8 * x.lo) % Limb>>
        ys == ShrPair(8 * y.hi + (8 * y.lo) \div Limb, (8 * y.lo) % Limb,
                      x.e - y.e)
        xlt == xs[1] < ys[1] \/ (xs[1] = ys[1] /\ xs[2] < ys[2])
        bh == IF xlt THEN ys[1] ELSE xs[1]
        bl == IF xlt THEN ys[2] ELSE xs[2]
        sh == IF xlt THEN xs[1] ELSE ys[1]
        sl == IF xlt THEN xs[2] ELSE ys[2]
        borrow == IF ys[3] THEN 1 ELSE 0
        dl0 == bl - sl - borrow
        dl == IF dl0 < 0 THEN dl0 + Limb ELSE dl0
        dh == IF dl0 < 0 THEN bh - sh - 1 ELSE bh - sh
        al == xs[2] + ys[2]
    IN  IF x.s = y.s
        THEN RoundPair(x.s, xs[1] + ys[1] + al \div Limb, al % Limb,
                       x.e - 3, ys[3])
        ELSE RoundPair(IF xlt THEN y.s ELSE x.s, dh, dl, x.e - 3, ys[3])

DAdd(a, b) ==
    IF IsNaN(a) \/ IsNaN(b) THEN DNaN
    ELSE IF IsInf(a) /\ IsInf(b) THEN (IF a.s = b.s THEN a ELSE DNaN)
    ELSE IF IsInf(a) THEN a
    ELSE IF IsInf(b) THEN b
    ELSE IF a.hi = 0 THEN b
    ELSE IF b.hi = 0 THEN a
    ELSE IF a.e >= b.e THEN DAddOrdered(a, b)
    ELSE DAddOrdered(b, a)

(***************************************************************************)
(* Geometry primitives                                                     *)
(***************************************************************************)
Rect(x, y, width, height) ==
    [x |-> x, y |-> y, width |-> width, height |-> height]

shorter_side(r) == FMin(r.width, r.height)
area(r) == FMul(r.width, r.height)
rect_min(r) == [x |-> r.x, y |-> r.y]
rect_max(r) == [x |-> FAdd(r.x, r.width), y |-> FAdd(r.y, r.height)]

less_than_or_equal(a, b) == FLe(a.x, b.x) \/ FLe(a.y, b.y)

overlaps(a, b) ==
    ~(less_than_or_equal(rect_max(a), rect_min(b)) \/
      less_than_or_equal(rect_max(b), rect_min(a)))

\* a within_bounds that compares the near corners only
within_bounds_near_corner(rect, bounds) ==
    /\ FGe(rect.x, bounds.x)
    /\ FGe(rect.y, bounds.y)

within_bounds(rect, bounds) ==
    /\ FGe(rect.x, bounds.x)
    /\ FGe(rect.y, bounds.y)
    /\ FLe(FAdd(rect.x, rect.width), FAdd(bounds.x, bounds.width))
    /\ FLe(FAdd(rect.y, rect.height), FAdd(bounds.y, bounds.height))

RenderRect(n, rect) == [node_ |-> n, rect_ |-> rect]

ImVec2(x, y) == [x |-> x, y |-> y]

\* the null pointer, where nodes are numbered from 1
nullptr == 0

\* the lambda of hit_test, with the comparisons strict
hovered_strictly(test, rect, offset) ==
    LET _rect_min == ImVec2(FAdd(offset.x, rect.rect_.x),
                            FAdd(offset.y, rect.rect_.y))
        _rect_max == ImVec2(FAdd(_rect_min.x, rect.rect_.width),
                            FAdd(_rect_min.y, rect.rect_.height))
    IN  /\ FLt(_rect_min.x, test.x) /\ FLt(test.x, _rect_max.x)
        /\ FLt(_rect_min.y, test.y) /\ FLt(test.y, _rect_max.y)

\* the lambda hit_test gives to std::find_if
hovered(test, rect, offset) ==
    LET _rect_min == ImVec2(FAdd(offset.x, rect.rect_.x),
                            FAdd(offset.y, rect.rect_.y))
        _rect_max == ImVec2(FAdd(_rect_min.x, rect.rect_.width),
                            FAdd(_rect_min.y, rect.rect_.height))
    IN  /\ FGe(test.x, _rect_min.x) /\ FLe(test.x, _rect_max.x)
        /\ FGe(test.y, _rect_min.y) /\ FLe(test.y, _rect_max.y)

\* std::find_if from position it on: the position of the first of rects the
\* lambda accepts, Len(rects) + 1 (cend) when it accepts none
RECURSIVE find_if(_, _, _, _)

find_if(test, rects, offset, it) ==
    IF it > Len(rects) \/ hovered(test, rects[it], offset) THEN it
    ELSE find_if(test, rects, offset, it + 1)

hit_test(test, rects, offset) ==
    LET hovered_rect_it == find_if(test, rects, offset, 1)
    IN  IF hovered_rect_it = Len(rects) + 1 THEN nullptr
        ELSE rects[hovered_rect_it].node_

(***************************************************************************)
(* MockTreeNode trees.  A tree is [parent, leaf_size]: the nodes are       *)
(* 1..Len(parent), node 1 is the root (parent 0), a node's children are    *)
(* the nodes naming it as parent, in increasing order (the order of        *)
(* children()); leaf_size is the float a leaf was constructed with.        *)
(***************************************************************************)
Nodes(t) == 1..Len(t.parent)

RECURSIVE SeqFrom(_, _)
\* the members of the set s of naturals, all >= lo, in increasing order
SeqFrom(s, lo) ==
    IF s = {} THEN <<>>
    ELSE IF lo \in s THEN <<lo>> \o SeqFrom(s \ {lo}, lo + 1)
    ELSE SeqFrom(s, lo + 1)

children(t, i) == SeqFrom({j \in Nodes(t) : t.parent[j] = i}, 1)

Range(s) == {s[i] : i \in DOMAIN s}

RECURSIVE size(_, _)
RECURSIVE SumSizes(_, _, _)
\* total += child->size() over the children cs; a NaN total stays NaN
SumSizes(t, cs, total) ==
    IF cs = <<>> \/ IsNaN(total) THEN total
    ELSE SumSizes(t, Tail(cs), FAdd(total, size(t, Head(cs))))

size(t, i) ==
    IF children(t, i) = <<>> THEN F(t.leaf_size[i])
    ELSE SumSizes(t, children(t, i), F(0))

(***************************************************************************)
(* Row builder                                                             *)
(***************************************************************************)
worst_aspect_ratio(total_size, max_element_size, min_element_size, w) ==
    FMax(FDiv(FMul(FMul(w, w), max_element_size),
              FMul(total_size, total_size)),
         FDiv(FMul(total_size, total_size),
              FMul(FMul(w, w), min_element_size)))

\* push that overwrites size with the pushed element's size instead of adding
push_overwrites_size(t, row, element) ==
    LET element_size == size(t, element)
    IN  [row EXCEPT
            !.elements = Append(row.elements, element),
            !.size = element_size,
            !.min_element_size = element_size,
            !.current_worst =
                worst_aspect_ratio(element_size, row.max_element_size,
                                   element_size, row.w)]

\* Row::push
push(t, row, element) ==
    LET element_size == size(t, element)
        new_size == FAdd(row.size, element_size)
    IN  [row EXCEPT
            !.elements = Append(row.elements, element),
            !.size = new_size,
            !.min_element_size = element_size,
            !.current_worst =
                worst_aspect_ratio(new_size, row.max_element_size,
                                   element_size, row.w)]

\* std::numeric_limits<float>::max() and ::min(), the default member
\* initialisers of Row
FloatMax == [k |-> "num", s |-> 1, m |-> 16777215, e |-> 104]
FloatMin == [k |-> "num", s |-> 1, m |-> 1, e |-> -126]

\* Row::Row
Row(t, _rect, initial_element) ==
    push(t,
         [rect |-> _rect,
          w |-> shorter_side(_rect),
          elements |-> <<>>,
          size |-> F(0),
          max_element_size |-> size(t, initial_element),
          min_element_size |-> FloatMax,
          current_worst |-> FloatMin],
         initial_element)

\* an element_count that finds every row empty
element_count_zero(row) == 0

element_count(row) == Len(row.elements)

\* a test that leaves the candidate out of the row's total
test_without_candidate(row, element_size) ==
    FLe(worst_aspect_ratio(row.size, row.max_element_size, element_size,
                           row.w),
        row.current_worst)

\* Row::test
test(row, element_size) ==
    FLe(worst_aspect_ratio(FAdd(row.size, element_size),
                           row.max_element_size, element_size, row.w),
        row.current_worst)

(***************************************************************************)
(* Row placement                                                           *)
(***************************************************************************)
RECURSIVE place_horizontally(_, _, _, _, _)
\* the loop of layoutrow's layout_horizontally branch
place_horizontally(t, elements, available_rect, row_height, x_offset) ==
    IF elements = <<>> THEN <<>>
    ELSE LET node == Head(elements)
             node_width == FDiv(size(t, node), row_height)
         IN  <<RenderRect(node, Rect(FAdd(available_rect.x, x_offset),
                                     available_rect.y,
                                     node_width,
                                     row_height))>>
             \o place_horizontally(t, Tail(elements), available_rect,
                                   row_height, FAdd(x_offset, node_width))

RECURSIVE place_vertically(_, _, _, _, _)
\* the loop of layoutrow's else branch
place_vertically(t, elements, available_rect, row_width, y_offset) ==
    IF elements = <<>> THEN <<>>
    ELSE LET node == Head(elements)
             node_height == FDiv(size(t, node), row_width)
         IN  <<RenderRect(node, Rect(available_rect.x,
                                     FAdd(available_rect.y, y_offset),
                                     row_width,
                                     node_height))>>
             \o place_vertically(t, Tail(elements), available_rect,
                                 row_width, FAdd(y_offset, node_height))

\* layoutrow: the rectangles of the row's members and the remaining space
layoutrow(t, row) ==
    LET available_rect == row.rect
        layout_horizontally == FLt(available_rect.width, available_rect.height)
        row_height == FDiv(row.size, available_rect.width)
        row_width == FDiv(row.size, available_rect.height)
    IN  IF element_count(row) = 0
        THEN [results |-> <<>>, remaining_space |-> available_rect]
        ELSE IF layout_horizontally
        THEN [results |-> place_horizontally(t, row.elements, available_rect,
                                             row_height, F(0)),
              remaining_space |->
                  Rect(available_rect.x,
                       FAdd(available_rect.y, row_height),
                       available_rect.width,
                       FSub(available_rect.height, row_height))]
        ELSE [results |-> place_vertically(t, row.elements, available_rect,
                                           row_width, F(0)),
              remaining_space |->
                  Rect(FAdd(available_rect.x, row_width),
                       available_rect.y,
                       FSub(available_rect.width, row_width),
                       available_rect.height)]

(***************************************************************************)
(* Inputs                                                                  *)
(***************************************************************************)
RECURSIVE IsAncestorIn(_, _, _)
\* a is a proper ancestor of b under the parent sequence p
IsAncestorIn(p, a, b) ==
    b # 1 /\ (p[b] = a \/ IsAncestorIn(p, a, p[b]))

\* the shapes of the trees of n nodes, each once: the nodes are numbered in
\* preorder, so the parent of node i is node i - 1 or one of its ancestors
ParentSeqs(n) ==
    {p \in [1..n -> 0..(n - 1)] :
        /\ p[1] = 0
        /\ \A i \in 2..n : p[i] >= 1 /\ p[i] < i
        /\ \A i \in 3..n : p[i] = i - 1 \/ IsAncestorIn(p, p[i], i - 1)}

LeafSizes(p) ==
    {ls \in [DOMAIN p -> 0..MaxLeafSize] :
        \A i \in DOMAIN p : (\E j \in DOMAIN p : p[j] = i) => ls[i] = 0}

Trees ==
    UNION {{[parent |-> p, leaf_size |-> ls] : ls \in LeafSizes(p)} :
              p \in UNION {ParentSeqs(n) : n \in 1..MaxNodes}}

\* the trees whose nodes below the root are all leaves: squarify reads
\* nothing of its children but size()
FlatTrees == {t \in Trees : \A i \in 2..Len(t.parent) : t.parent[i] = 1}

\* the rectangles of positive area and three of zero area (no width, no
\* height, neither), with the offsets in the ratio of the tests' {10, 20, 80, 60}
Dims ==
    {<<w, h>> : w \in 1..MaxDim, h \in 1..MaxDim}
        \cup {<<0, MaxDim>>, <<MaxDim, 0>>, <<0, 0>>}

Rects ==
    {Rect(F(o), F(2 * o), F(wh[1]), F(wh[2])) : o \in 0..MaxOffset, wh \in Dims}

\* "Paper example" of TEST_CASE("Squarify Function")
PaperTree ==
    [parent |-> <<0, 1, 1, 1, 1, 1, 1, 1>>,
     leaf_size |-> <<0, 6, 6, 4, 3, 2, 2, 1>>]
PaperRect == Rect(F(0), F(0), F(6), F(4))

\* TEST_CASE("TreeMap Layout - Leaf Node")
LeafNodeTree == [parent |-> <<0>>, leaf_size |-> <<100>>]
LeafNodeRect == Rect(F(10), F(20), F(80), F(60))

\* TEST_CASE("TreeMap Layout - Simple Case")
SimpleCaseTree == [parent |-> <<0, 1, 1>>, leaf_size |-> <<0, 60, 40>>]
SimpleCaseRect == Rect(F(0), F(0), F(100), F(100))

\* a call beyond the bounds: three leaves of sizes 5, 4, 3 in {0, 0, 2, 5}
ThreeLeavesTree == [parent |-> <<0, 1, 1, 1>>, leaf_size |-> <<0, 5, 4, 3>>]
ThreeLeavesRect == Rect(F(0), F(0), F(2), F(5))

\* the calls of the model: the bounded trees in the bounded rectangles, the
\* scenarios of the tests and the call beyond the bounds
Calls ==
    (Trees \X Rects \X {"layout"})
        \cup (FlatTrees \X Rects \X {"squarify"})
        \cup {<<PaperTree, PaperRect, "layout">>,
               <<PaperTree, PaperRect, "squarify">>,
               <<LeafNodeTree, LeafNodeRect, "layout">>,
               <<SimpleCaseTree, SimpleCaseRect, "layout">>,
               <<ThreeLeavesTree, ThreeLeavesRect, "layout">>}

(***************************************************************************)
(* State                                                                   *)
(***************************************************************************)
VARIABLES
    tree,                      \* the tree of the call (root is node 1)
    available_rect,            \* the rectangle of the call
    parallelize,               \* layout's parallelize argument
    ENABLE_PARALLEL_EXECUTION, \* the build's value of the macro
    entry,                     \* the function called: "layout" or "squarify"
    pc,                        \* position in the call
    scaling_factor,            \* layout's scaling_factor
    stack,                     \* pending layout_tree_traversal calls, next first
    layout_result,             \* Layout<T>: [leaves, frames]
    call,                      \* arguments of the running squarify: [node_, rect_]
    remaining_children,        \* squarify's priority queue, as the set it holds
    current_row,               \* squarify's current_row
    results,                   \* squarify's results
    probe,                     \* a call of a function outside layout: [fn, args, returned, result]
    widget                     \* a TreeMapWidget: its members, and the last render's frame

vars == <<tree, available_rect, parallelize, ENABLE_PARALLEL_EXECUTION, entry,
          pc, scaling_factor, stack, layout_result, call, remaining_children,
          current_row, results, probe, widget>>

\* what no step of a layout or squarify call writes
inputs == <<tree, available_rect, parallelize, ENABLE_PARALLEL_EXECUTION,
            entry, probe, widget>>

\* values of the squarify locals outside a squarify call
NoRow == [rect |-> Rect(F(0), F(0), F(0), F(0)), w |-> F(0),
          elements |-> <<>>, size |-> F(0), max_element_size |-> F(0),
          min_element_size |-> F(0), current_worst |-> F(0)]
NoCall == RenderRect(0, Rect(F(0), F(0), F(0), F(0)))

\* value of probe in a layout or squarify call
NoProbe == [fn |-> "none", args |-> <<>>, returned |-> FALSE, result |-> FALSE]

\* no TreeMapWidget is constructed
NoWidget == [constructed |-> FALSE]

Init ==
    /\ \E c \in Calls, par \in BOOLEAN, macro \in BOOLEAN :
          /\ c[3] = "squarify" => (~par /\ ~macro)
          /\ tree = c[1]
          /\ available_rect = c[2]
          /\ entry = c[3]
          /\ parallelize = par
          /\ ENABLE_PARALLEL_EXECUTION = macro
          /\ pc = c[3]
          /\ call = IF c[3] = "squarify" THEN RenderRect(1, c[2]) ELSE NoCall
    /\ scaling_factor = DZero
    /\ stack = <<>>
    /\ layout_result = [leaves |-> <<>>, frames |-> <<>>]
    /\ remaining_children = {}
    /\ current_row = NoRow
    /\ results = <<>>
    /\ probe = NoProbe
    /\ widget = NoWidget

(***************************************************************************)
(* layout: scaling into weight space, then the traversal                   *)
(***************************************************************************)
LayoutScale ==
    /\ pc = "layout"
    /\ LET total_size == ToDouble(size(tree, 1))
           available_size ==
               ToDouble(FMul(available_rect.height, available_rect.width))
           factor == DSqrt(DDiv(total_size, available_size))
           available_rect_scaled ==
               Rect(F(0), F(0),
                    ToFloat(DMulF(available_rect.width, factor)),
                    ToFloat(DMulF(available_rect.height, factor)))
       IN  /\ scaling_factor' = factor
           /\ stack' = <<RenderRect(1, available_rect_scaled)>>
    /\ pc' = "traverse"
    /\ UNCHANGED <<inputs, layout_result, call, remaining_children,
                   current_row, results>>

\* layout_tree_traversal on a node without children
TraverseLeaf ==
    /\ pc = "traverse"
    /\ stack # <<>>
    /\ children(tree, Head(stack).node_) = <<>>
    /\ layout_result' =
           [layout_result EXCEPT !.leaves = Append(@, Head(stack))]
    /\ stack' = Tail(stack)
    /\ UNCHANGED <<inputs, pc, scaling_factor, call, remaining_children,
                   current_row, results>>

\* layout_tree_traversal on a node with children, up to the call of squarify
TraverseFrame ==
    /\ pc = "traverse"
    /\ stack # <<>>
    /\ children(tree, Head(stack).node_) # <<>>
    /\ layout_result' =
           [layout_result EXCEPT !.frames = Append(@, Head(stack))]
    /\ call' = Head(stack)
    /\ stack' = Tail(stack)
    /\ pc' = "squarify"
    /\ UNCHANGED <<inputs, scaling_factor, remaining_children, current_row,
                   results>>

(***************************************************************************)
(* squarify                                                                *)
(***************************************************************************)
\* a queue that returns its elements in any order
top_unordered(t, queue) ==
    queue

\* the nodes top() can return: the comparator orders by size() alone
top(t, queue) ==
    {c \in queue : \A o \in queue : ~FLt(size(t, c), size(t, o))}

SquarifyEmpty ==
    /\ pc = "squarify"
    /\ children(tree, call.node_) = <<>>
    /\ results' = <<>>
    /\ pc' = "done"
    /\ UNCHANGED <<inputs, scaling_factor, stack, layout_result, call,
                   remaining_children, current_row>>

\* queue construction and the seeding of the first row
SquarifySeed ==
    /\ pc = "squarify"
    /\ children(tree, call.node_) # <<>>
    /\ LET queue == Range(children(tree, call.node_))
       IN  \E first \in top(tree, queue) :
               /\ current_row' = Row(tree, call.rect_, first)
               /\ remaining_children' = queue \ {first}
    /\ results' = <<>>
    /\ pc' = "loop"
    /\ UNCHANGED <<inputs, scaling_factor, stack, layout_result, call>>

\* a loop iteration whose candidate passes Row::test
SquarifyPush ==
    /\ pc = "loop"
    /\ remaining_children # {}
    /\ \E largest_remaining \in top(tree, remaining_children) :
           /\ test(current_row, size(tree, largest_remaining))
           /\ current_row' = push(tree, current_row, largest_remaining)
           /\ remaining_children' = remaining_children \ {largest_remaining}
    /\ UNCHANGED <<inputs, pc, scaling_factor, stack, layout_result, call,
                   results>>

\* a flush that reads the top of the queue and leaves it there
SquarifyFlush_without_pop ==
    /\ pc = "loop"
    /\ remaining_children # {}
    /\ \E largest_remaining \in top(tree, remaining_children) :
           /\ ~test(current_row, size(tree, largest_remaining))
           /\ LET placed == layoutrow(tree, current_row)
              IN  /\ results' = results \o placed.results
                  /\ current_row' =
                         Row(tree, placed.remaining_space, largest_remaining)
    /\ UNCHANGED <<inputs, pc, scaling_factor, stack, layout_result, call,
                   remaining_children>>

\* a loop iteration whose candidate fails Row::test: flush, start a new row
SquarifyFlush ==
    /\ pc = "loop"
    /\ remaining_children # {}
    /\ \E largest_remaining \in top(tree, remaining_children) :
           /\ ~test(current_row, size(tree, largest_remaining))
           /\ LET placed == layoutrow(tree, current_row)
              IN  /\ results' = results \o placed.results
                  /\ current_row' =
                         Row(tree, placed.remaining_space, largest_remaining)
           /\ remaining_children' = remaining_children \ {largest_remaining}
    /\ UNCHANGED <<inputs, pc, scaling_factor, stack, layout_result, call>>

\* the flush of the final row and the return
SquarifyReturn ==
    /\ pc = "loop"
    /\ remaining_children = {}
    /\ results' =
           IF element_count(current_row) # 0
           THEN results \o layoutrow(tree, current_row).results
           ELSE results
    /\ pc' = IF entry = "squarify" THEN "done" ELSE "recurse"
    /\ UNCHANGED <<inputs, scaling_factor, stack, layout_result, call,
                   remaining_children, current_row>>

(***************************************************************************)
(* layout_tree_traversal after squarify, and layout's rescaling            *)
(***************************************************************************)
\* sequential_impl, or the parallel branch of the build that has one
Recurse ==
    /\ pc = "recurse"
    /\ stack' =
           IF ENABLE_PARALLEL_EXECUTION /\ parallelize
           THEN stack
           ELSE results \o stack
    /\ results' = <<>>
    /\ current_row' = NoRow
    /\ call' = NoCall
    /\ pc' = "traverse"
    /\ UNCHANGED <<inputs, scaling_factor, layout_result, remaining_children>>

\* a rescale_rect that leaves the rectangle in weight space
rescale_rect_unscaled(rect) ==
    rect

\* layout's lambda rescale_rect
rescale_rect(rect) ==
    [rect EXCEPT
        !.rect_ =
            Rect(ToFloat(DAdd(DDiv(ToDouble(rect.rect_.x), scaling_factor),
                              ToDouble(available_rect.x))),
                 ToFloat(DAdd(DDiv(ToDouble(rect.rect_.y), scaling_factor),
                              ToDouble(available_rect.y))),
                 ToFloat(DDiv(ToDouble(rect.rect_.width), scaling_factor)),
                 ToFloat(DDiv(ToDouble(rect.rect_.height), scaling_factor)))]

LayoutRescale ==
    /\ pc = "traverse"
    /\ stack = <<>>
    /\ layout_result' =
           [leaves |-> [i \in DOMAIN layout_result.leaves |->
                           rescale_rect(layout_result.leaves[i])],
            frames |-> [i \in DOMAIN layout_result.frames |->
                           rescale_rect(layout_result.frames[i])]]
    /\ pc' = "done"
    /\ UNCHANGED <<inputs, scaling_factor, stack, call, remaining_children,
                   current_row, results>>

Next ==
    \/ LayoutScale
    \/ TraverseLeaf
    \/ TraverseFrame
    \/ SquarifyEmpty
    \/ SquarifySeed
    \/ SquarifyPush
    \/ SquarifyFlush
    \/ SquarifyReturn
    \/ Recurse
    \/ LayoutRescale

Spec == Init /\ [][Next]_vars

\* what a step of layout or squarify other than TraverseLeaf changes
progress == <<pc, remaining_children>>

\* Next without TraverseLeaf, as progress shows it: the guards of the actions,
\* their next position and their pop, with the floating-point results left out
Advance ==
    \/ /\ pc = "layout"
       /\ pc' = "traverse"
       /\ remaining_children' = remaining_children
    \/ /\ pc = "traverse"
       /\ stack # <<>>
       /\ children(tree, Head(stack).node_) # <<>>
       /\ pc' = "squarify"
       /\ remaining_children' = remaining_children
    \/ /\ pc = "traverse"
       /\ stack = <<>>
       /\ pc' = "done"
       /\ remaining_children' = remaining_children
    \/ /\ pc = "squarify"
       /\ children(tree, call.node_) = <<>>
       /\ pc' = "done"
       /\ remaining_children' = remaining_children
    \/ /\ pc = "squarify"
       /\ children(tree, call.node_) # <<>>
       /\ pc' = "loop"
       /\ \E first \in Range(children(tree, call.node_)) :
              remaining_children' = Range(children(tree, call.node_)) \ {first}
    \/ /\ pc = "loop"
       /\ remaining_children # {}
       /\ pc' = "loop"
       /\ \E largest_remaining \in remaining_children :
              remaining_children' = remaining_children \ {largest_remaining}
    \/ /\ pc = "loop"
       /\ remaining_children = {}
       /\ pc' = IF entry = "squarify" THEN "done" ELSE "recurse"
       /\ remaining_children' = remaining_children
    \/ /\ pc = "recurse"
       /\ pc' = "traverse"
       /\ remaining_children' = remaining_children

\* layout and squarify are sequential code with no blocking call: a statement
\* that can run does run
SpecFair ==
    /\ Init
    /\ [][Next]_vars
    /\ WF_progress(Advance)
    /\ WF_vars(TraverseLeaf)

(***************************************************************************)
(* The functions a caller uses outside a layout call: the geometry         *)
(* predicates, hit_test and size() of FileSystemNode and ASTNode, each     *)
(* called once on arguments from bounded sets                              *)
(***************************************************************************)
\* FileSystemNode::size of node i of the tree t, whose nodes have the
\* FileInfo fields is_directory[i] and leaf_size[i] (file_size_)
RECURSIVE FileSystemNode_size(_, _)
RECURSIVE accumulate(_, _, _)

\* std::accumulate over the children cs with the lambda of size()
accumulate(t, cs, _size) ==
    IF cs = <<>> \/ IsNaN(_size) THEN _size
    ELSE accumulate(t, Tail(cs), FAdd(_size, FileSystemNode_size(t, Head(cs))))

\* a size() that returns the file_size_ of a file as it is
FileSystemNode_size_of_file(t, i) ==
    IF ~t.is_directory[i] THEN F(t.leaf_size[i])
    ELSE accumulate(t, children(t, i), F(1))

FileSystemNode_size(t, i) ==
    IF ~t.is_directory[i] THEN FMax(F(1), F(t.leaf_size[i]))
    ELSE accumulate(t, children(t, i), F(1))

\* size() of the NodeMetrics of a leaf whose metrics compute the number
\* computed: std::max(computed, 1.0f)
NodeMetrics_size(computed) == FMax(F(computed), F(1))

\* the size() of the five alternatives of NodeMetrics
FunctionMetrics_size(m) ==
    LET computed == F(m.lines_of_code + m.cyclomatic_complexity * 2)
    IN  FMax(computed, F(1))

ClassMetrics_size(m) ==
    LET computed ==
            F(m.lines_of_code + m.member_count * 3 + m.method_count * 2)
    IN  FMax(computed, F(1))

NamespaceMetrics_size(m) ==
    LET computed == F(m.lines_of_code + m.child_count)
    IN  FMax(computed, F(1))

VariableMetrics_size(m) == F(1)

DefaultMetrics_size(m) == FMax(F(m.lines_of_code), F(1))

\* std::visit of m.size() over the alternative that the variant holds
visit_size(m) ==
    CASE m.kind = "FunctionMetrics" -> FunctionMetrics_size(m)
      [] m.kind = "ClassMetrics" -> ClassMetrics_size(m)
      [] m.kind = "NamespaceMetrics" -> NamespaceMetrics_size(m)
      [] m.kind = "VariableMetrics" -> VariableMetrics_size(m)
      [] m.kind = "DefaultMetrics" -> DefaultMetrics_size(m)

\* a NodeMetrics: the alternative held and the counters size() reads (the
\* counters an alternative does not have are 0)
Metrics(kind, lines_of_code, cyclomatic_complexity, member_count, method_count, child_count) ==
    [kind |-> kind, lines_of_code |-> lines_of_code,
     cyclomatic_complexity |-> cyclomatic_complexity,
     member_count |-> member_count, method_count |-> method_count,
     child_count |-> child_count]

Counts == 0..MaxLeafSize

NodeMetricsValues ==
    {Metrics("FunctionMetrics", l, c, 0, 0, 0) : l \in Counts, c \in Counts}
        \cup {Metrics("ClassMetrics", l, 0, mb, mt, 0) :
                  l \in Counts, mb \in Counts, mt \in Counts}
        \cup {Metrics("NamespaceMetrics", l, 0, 0, 0, ch) :
                  l \in Counts, ch \in Counts}
        \cup {Metrics("VariableMetrics", l, 0, 0, 0, 0) : l \in Counts}
        \cup {Metrics("DefaultMetrics", l, 0, 0, 0, 0) : l \in Counts}

RECURSIVE ASTNode_size(_, _)
RECURSIVE ASTNode_total(_, _, _)

\* total += child->size() over the children cs
ASTNode_total(t, cs, total) ==
    IF cs = <<>> \/ IsNaN(total) THEN total
    ELSE ASTNode_total(t, Tail(cs), FAdd(total, ASTNode_size(t, Head(cs))))

\* ASTNode::size of node i of the tree t, whose leaves have metrics that
\* compute leaf_size[i]
ASTNode_size(t, i) ==
    IF children(t, i) = <<>> THEN NodeMetrics_size(t.leaf_size[i])
    ELSE FMax(ASTNode_total(t, children(t, i), F(0)), F(1))

\* the trees of FileSystemNodes: the nodes with children are directories,
\* a leaf is a file or an empty directory, and a directory has file_size_ 0
FileSystemTrees ==
    UNION {{[parent |-> t.parent, leaf_size |-> t.leaf_size,
             is_directory |-> d] :
               d \in {d \in [DOMAIN t.parent -> BOOLEAN] :
                         \A i \in DOMAIN t.parent :
                             /\ children(t, i) # <<>> => d[i]
                             /\ d[i] => t.leaf_size[i] = 0}} :
              t \in Trees}

\* rectangles of no or some width and height, around the origin
GeometryRects ==
    {Rect(F(x), F(y), F(w), F(h)) :
        x \in (-MaxOffset)..MaxOffset, y \in (-MaxOffset)..MaxOffset,
        w \in 0..MaxDim, h \in 0..MaxDim}

\* the rectangles of the items given to hit_test
HitRects == {r \in GeometryRects : FGe(r.x, F(0)) /\ FGe(r.y, F(0))}

\* the sequences of at most MaxItems items, item i for node i
HitItems ==
    UNION {{[i \in 1..n |-> RenderRect(i, rs[i])] : rs \in [1..n -> HitRects]} :
              n \in 0..MaxItems}

Points == {ImVec2(F(x), F(y)) : x \in 0..MaxDim, y \in 0..MaxDim}

Offsets == {ImVec2(F(o), F(o)) : o \in (-MaxOffset)..MaxOffset}

ProbeCalls ==
    {[fn |-> "overlaps", args |-> <<a, b>>, returned |-> FALSE,
      result |-> FALSE] : a \in GeometryRects, b \in GeometryRects}
        \cup {[fn |-> "within_bounds", args |-> <<a, b>>, returned |-> FALSE,
                result |-> FALSE] : a \in GeometryRects, b \in GeometryRects}
        \cup {[fn |-> "hit_test", args |-> <<point, rects, offset>>,
                returned |-> FALSE, result |-> nullptr] :
                   point \in Points, rects \in HitItems, offset \in Offsets}
        \cup {[fn |-> "FileSystemNode::size", args |-> <<t>>,
                returned |-> FALSE, result |-> <<>>] : t \in FileSystemTrees}
        \cup {[fn |-> "ASTNode::size", args |-> <<t>>,
                returned |-> FALSE, result |-> <<>>] : t \in Trees}
        \cup {[fn |-> "NodeMetrics::size", args |-> <<m>>,
                returned |-> FALSE, result |-> <<>>] : m \in NodeMetricsValues}

\* no layout or squarify call is running
InitProbe ==
    /\ probe \in ProbeCalls
    /\ tree = LeafNodeTree
    /\ available_rect = LeafNodeRect
    /\ entry = "none"
    /\ parallelize = FALSE
    /\ ENABLE_PARALLEL_EXECUTION = FALSE
    /\ pc = "none"
    /\ call = NoCall
    /\ scaling_factor = DZero
    /\ stack = <<>>
    /\ layout_result = [leaves |-> <<>>, frames |-> <<>>]
    /\ remaining_children = {}
    /\ current_row = NoRow
    /\ results = <<>>
    /\ widget = NoWidget

layout_state ==
    <<tree, available_rect, parallelize, ENABLE_PARALLEL_EXECUTION, entry, pc,
      scaling_factor, stack, layout_result, call, remaining_children,
      current_row, results, widget>>

CallOverlaps ==
    /\ probe.fn = "overlaps"
    /\ ~probe.returned
    /\ probe' = [probe EXCEPT !.returned = TRUE,
                              !.result = overlaps(probe.args[1], probe.args[2])]
    /\ UNCHANGED layout_state

CallWithinBounds ==
    /\ probe.fn = "within_bounds"
    /\ ~probe.returned
    /\ probe' = [probe EXCEPT
                    !.returned = TRUE,
                    !.result = within_bounds(probe.args[1], probe.args[2])]
    /\ UNCHANGED layout_state

CallHitTest ==
    /\ probe.fn = "hit_test"
    /\ ~probe.returned
    /\ probe' = [probe EXCEPT
                    !.returned = TRUE,
                    !.result = hit_test(probe.args[1], probe.args[2],
                                        probe.args[3])]
    /\ UNCHANGED layout_state

\* size() called on every node of the tree
CallFileSystemNodeSize ==
    /\ probe.fn = "FileSystemNode::size"
    /\ ~probe.returned
    /\ probe' = [probe EXCEPT
                    !.returned = TRUE,
                    !.result = [i \in Nodes(probe.args[1]) |->
                                   FileSystemNode_size(probe.args[1], i)]]
    /\ UNCHANGED layout_state

CallASTNodeSize ==
    /\ probe.fn = "ASTNode::size"
    /\ ~probe.returned
    /\ probe' = [probe EXCEPT
                    !.returned = TRUE,
                    !.result = [i \in Nodes(probe.args[1]) |->
                                   ASTNode_size(probe.args[1], i)]]
    /\ UNCHANGED layout_state

\* the size() of a leaf ASTNode: the visit of its metrics
CallNodeMetricsSize ==
    /\ probe.fn = "NodeMetrics::size"
    /\ ~probe.returned
    /\ probe' = [probe EXCEPT
                    !.returned = TRUE,
                    !.result = <<visit_size(probe.args[1])>>]
    /\ UNCHANGED layout_state

NextProbe ==
    \/ CallOverlaps
    \/ CallWithinBounds
    \/ CallHitTest
    \/ CallFileSystemNodeSize
    \/ CallASTNodeSize
    \/ CallNodeMetricsSize

SpecProbe == InitProbe /\ [][NextProbe]_vars

(***************************************************************************)
(* TreeMapWidget (treemap_widget.h): its own squarified layout, hit_test    *)
(* and render.  A frame is one call of render; what ImGui returns in the    *)
(* frame is the frame's input.                                             *)
(***************************************************************************)
MaxCallbacks == 2
MaxWidgetNodes == 3

RenderedRect(n, x_, y_, w_, h_) == [node |-> n, rect |-> Rect(x_, y_, w_, h_)]

is_horizontal(r) == FGe(r.width, r.height)

\* std::numeric_limits<float>::max()
numeric_limits_max == [k |-> "num", s |-> 1, m |-> 16777215, e |-> 104]

\* the lambda of treemap_widget.h's hit_test, point being its test
TreeMapWidget_hovered(point, rect, offset) ==
    LET _rect_min == ImVec2(FAdd(offset.x, rect.rect.x),
                            FAdd(offset.y, rect.rect.y))
        _rect_max == ImVec2(FAdd(_rect_min.x, rect.rect.width),
                            FAdd(_rect_min.y, rect.rect.height))
    IN  /\ FGe(point.x, _rect_min.x) /\ FLe(point.x, _rect_max.x)
        /\ FGe(point.y, _rect_min.y) /\ FLe(point.y, _rect_max.y)

RECURSIVE TreeMapWidget_find_if(_, _, _, _)

TreeMapWidget_find_if(point, rects, offset, it) ==
    IF it > Len(rects) \/ TreeMapWidget_hovered(point, rects[it], offset) THEN it
    ELSE TreeMapWidget_find_if(point, rects, offset, it + 1)

\* treemap_widget.h's hit_test
TreeMapWidget_hit_test(point, rects, offset) ==
    LET hovered_rect_it == TreeMapWidget_find_if(point, rects, offset, 1)
    IN  IF hovered_rect_it = Len(rects) + 1 THEN nullptr
        ELSE rects[hovered_rect_it].node

RECURSIVE max_aspect_ratio_loop(_, _, _, _)
\* the second loop of TreeMapWidget::worst_aspect_ratio
max_aspect_ratio_loop(t, row, row_height, max_aspect_ratio) ==
    IF row = <<>> THEN max_aspect_ratio
    ELSE LET rect_width == FDiv(size(t, Head(row)), row_height)
             aspect_ratio == FMax(FDiv(rect_width, row_height),
                                  FDiv(row_height, rect_width))
         IN  max_aspect_ratio_loop(t, Tail(row), row_height,
                                   FMax(max_aspect_ratio, aspect_ratio))

TreeMapWidget_worst_aspect_ratio(t, row, row_width) ==
    IF row = <<>> \/ FLe(row_width, F(0)) THEN numeric_limits_max
    ELSE LET total_area == SumSizes(t, row, F(0))
         IN  IF FLe(total_area, F(0)) THEN numeric_limits_max
             ELSE max_aspect_ratio_loop(t, row, FDiv(total_area, row_width),
                                        F(0))

RECURSIVE position_row_loop(_, _, _, _, _, _, _)
\* the loop of TreeMapWidget::position_row
position_row_loop(t, row, available, horizontal, row_width, row_height, current_offset) ==
    IF row = <<>> THEN <<>>
    ELSE LET node == Head(row)
             rect_height == FDiv(size(t, node), row_width)
             rect_width == FDiv(size(t, node), row_height)
         IN  IF horizontal
             THEN <<[node |-> node,
                     rect |-> Rect(available.x,
                                   FAdd(available.y, current_offset),
                                   row_width, rect_height)]>>
                  \o position_row_loop(t, Tail(row), available, horizontal,
                                       row_width, row_height,
                                       FAdd(current_offset, rect_height))
             ELSE <<[node |-> node,
                     rect |-> Rect(FAdd(available.x, current_offset),
                                   available.y, rect_width, row_height)]>>
                  \o position_row_loop(t, Tail(row), available, horizontal,
                                       row_width, row_height,
                                       FAdd(current_offset, rect_width))

position_row(t, row, available) ==
    IF row = <<>> THEN <<>>
    ELSE LET total_area == SumSizes(t, row, F(0))
             row_width == shorter_side(available)
             row_height == FDiv(total_area, row_width)
         IN  IF FLe(total_area, F(0)) THEN <<>>
             ELSE position_row_loop(t, row, available,
                                    is_horizontal(available), row_width,
                                    row_height, F(0))

layout_row(t, row, available) ==
    IF row = <<>> THEN available
    ELSE LET total_area == SumSizes(t, row, F(0))
             row_width == shorter_side(available)
             row_height == FDiv(total_area, row_width)
         IN  IF FLe(total_area, F(0)) THEN available
             ELSE IF is_horizontal(available)
             THEN [available EXCEPT !.x = FAdd(@, row_width),
                                    !.width = FSub(@, row_width)]
             ELSE [available EXCEPT !.y = FAdd(@, row_height),
                                    !.height = FSub(@, row_height)]

RECURSIVE squarify_recursive(_, _, _, _)

squarify_recursive(t, cs, current_row_, available) ==
    IF cs = <<>>
    THEN IF current_row_ = <<>> THEN <<>>
         ELSE position_row(t, current_row_, available)
    ELSE LET next_child == Head(cs)
             remaining == Tail(cs)
             test_row == Append(current_row_, next_child)
             current_worst ==
                 TreeMapWidget_worst_aspect_ratio(t, current_row_,
                                                  shorter_side(available))
             test_worst ==
                 TreeMapWidget_worst_aspect_ratio(t, test_row,
                                                  shorter_side(available))
         IN  IF current_row_ = <<>>
             THEN squarify_recursive(t, remaining, <<next_child>>, available)
             ELSE IF FLe(test_worst, current_worst)
             THEN squarify_recursive(t, remaining, test_row, available)
             ELSE position_row(t, current_row_, available)
                  \o squarify_recursive(t, remaining, <<next_child>>,
                                        layout_row(t, current_row_, available))

RECURSIVE sorted_children(_, _)
\* std::sort by decreasing size(), for children of pairwise different sizes
sorted_children(t, cs) ==
    IF cs = {} THEN <<>>
    ELSE LET largest ==
                 CHOOSE c \in cs : \A o \in cs : ~FLt(size(t, c), size(t, o))
         IN  <<largest>> \o sorted_children(t, cs \ {largest})

squarify_layout(t, cs, available) ==
    IF cs = <<>> \/ FLe(available.width, F(0)) \/ FLe(available.height, F(0))
    THEN <<>>
    ELSE IF Len(cs) = 1 THEN <<[node |-> cs[1], rect |-> available]>>
    ELSE squarify_recursive(t, sorted_children(t, Range(cs)), <<>>, available)

RECURSIVE calculate_layout(_, _, _)
RECURSIVE calculate_layout_loop(_, _)

\* the loop of calculate_layout over child_layouts
calculate_layout_loop(t, child_layouts) ==
    IF child_layouts = <<>> THEN <<>>
    ELSE calculate_layout(t, Head(child_layouts).node,
                          Head(child_layouts).rect)
         \o calculate_layout_loop(t, Tail(child_layouts))

calculate_layout(t, root, available) ==
    IF children(t, root) = <<>>
    THEN <<RenderedRect(root, available.x, available.y, available.width,
                        available.height)>>
    ELSE calculate_layout_loop(t, squarify_layout(t, children(t, root),
                                                  available))

\* the condition under which render runs the hover callbacks
hover_changed_ignoring_last(currently_hovered_node, hovered_node_) ==
    currently_hovered_node # nullptr

hover_changed(currently_hovered_node, hovered_node_) ==
    currently_hovered_node # nullptr /\ currently_hovered_node # hovered_node_

\* the calls for (callback : cbs) callback(*node) makes, in order
invoke(cbs, node) == [i \in DOMAIN cbs |-> <<cbs[i], node>>]

\* the trees a widget is constructed on: at most three nodes, siblings of
\* different sizes
WidgetTrees ==
    {t \in UNION {{[parent |-> p, leaf_size |-> ls] : ls \in LeafSizes(p)} :
                    p \in UNION {ParentSeqs(n) : n \in 1..MaxWidgetNodes}} :
        \A i, j \in Nodes(t) :
            (i # j /\ t.parent[i] = t.parent[j]) =>
                ~FEq(size(t, i), size(t, j))}

\* a callback is named by the number of its registration
Callbacks == 1..MaxCallbacks

\* what ImGui returns in a frame
CanvasPositions == {ImVec2(F(o), F(o)) : o \in 0..MaxOffset}
CanvasSizes == {ImVec2(F(w), F(MaxDim)) : w \in {0, MaxDim}}
MousePositions ==
    {ImVec2(F(x), FDiv(F(x + 1), F(2))) : x \in {1, 2, MaxDim + MaxOffset + 1}}

NoFrame ==
    [rendered |-> FALSE, GetCursorScreenPos |-> ImVec2(F(0), F(0)),
     IsItemHovered |-> FALSE, GetMousePos |-> ImVec2(F(0), F(0)),
     IsMouseClicked |-> FALSE, hover_calls |-> <<>>, click_calls |-> <<>>,
     clicked |-> FALSE]

\* the constructor
TreeMapWidget(root) ==
    [constructed |-> TRUE, root_ |-> root, node_hover_cbs_ |-> <<>>,
     node_clicked_cbs_ |-> <<>>, selected_node_ |-> nullptr,
     hovered_node_ |-> nullptr, rendered_rects_ |-> <<>>, frame |-> NoFrame]

InitWidget ==
    /\ widget \in {TreeMapWidget(t) : t \in WidgetTrees}
    /\ probe = NoProbe
    /\ tree = LeafNodeTree
    /\ available_rect = LeafNodeRect
    /\ entry = "none"
    /\ parallelize = FALSE
    /\ ENABLE_PARALLEL_EXECUTION = FALSE
    /\ pc = "none"
    /\ call = NoCall
    /\ scaling_factor = DZero
    /\ stack = <<>>
    /\ layout_result = [leaves |-> <<>>, frames |-> <<>>]
    /\ remaining_children = {}
    /\ current_row = NoRow
    /\ results = <<>>

outside_widget ==
    <<tree, available_rect, parallelize, ENABLE_PARALLEL_EXECUTION, entry, pc,
      scaling_factor, stack, layout_result, call, remaining_children,
      current_row, results, probe>>

add_on_node_hover ==
    /\ widget.constructed
    /\ Len(widget.node_hover_cbs_) < MaxCallbacks
    /\ \E callback \in {Len(widget.node_hover_cbs_) + 1} :
           widget' = [widget EXCEPT !.node_hover_cbs_ = Append(@, callback)]
    /\ UNCHANGED outside_widget

add_on_node_click ==
    /\ widget.constructed
    /\ Len(widget.node_clicked_cbs_) < MaxCallbacks
    /\ \E callback \in {Len(widget.node_clicked_cbs_) + 1} :
           widget' = [widget EXCEPT !.node_clicked_cbs_ = Append(@, callback)]
    /\ UNCHANGED outside_widget

\* render from the hover test on: the widget after the frame in which
\* hit_test has returned currently_hovered_node (not read when the item is
\* not hovered)
render_after_layout(w, rendered_rects_, canvas_pos, IsItemHovered, GetMousePos, IsMouseClicked, currently_hovered_node) ==
    LET hover_calls ==
            IF /\ IsItemHovered
               /\ hover_changed(currently_hovered_node, w.hovered_node_)
            THEN invoke(w.node_hover_cbs_, currently_hovered_node)
            ELSE <<>>
        hovered_node_ ==
            IF IsItemHovered THEN currently_hovered_node ELSE w.hovered_node_
        clicked == hovered_node_ # nullptr /\ IsMouseClicked
    IN  [w EXCEPT
            !.rendered_rects_ = rendered_rects_,
            !.hovered_node_ = hovered_node_,
            !.selected_node_ = IF clicked THEN hovered_node_ ELSE @,
            !.frame =
                [rendered |-> TRUE,
                 GetCursorScreenPos |-> canvas_pos,
                 IsItemHovered |-> IsItemHovered,
                 GetMousePos |-> GetMousePos,
                 IsMouseClicked |-> IsMouseClicked,
                 hover_calls |-> hover_calls,
                 click_calls |->
                     IF clicked
                     THEN invoke(w.node_clicked_cbs_, hovered_node_)
                     ELSE <<>>,
                 clicked |-> clicked]]

\* render up to the hover test
render_layout(w, rendered_rects_, canvas_pos, IsItemHovered, GetMousePos, IsMouseClicked) ==
    render_after_layout(w, rendered_rects_, canvas_pos, IsItemHovered,
                        GetMousePos, IsMouseClicked,
                        TreeMapWidget_hit_test(GetMousePos, rendered_rects_,
                                               canvas_pos))

\* one frame
render ==
    /\ widget.constructed
    /\ \E canvas_pos \in CanvasPositions, canvas_size \in CanvasSizes,
          IsItemHovered \in BOOLEAN, GetMousePos \in MousePositions,
          IsMouseClicked \in BOOLEAN :
           widget' =
               render_layout(widget,
                             calculate_layout(widget.root_, 1,
                                              Rect(F(0), F(0), canvas_size.x,
                                                   canvas_size.y)),
                             canvas_pos, IsItemHovered, GetMousePos,
                             IsMouseClicked)
    /\ UNCHANGED outside_widget

NextWidget ==
    \/ add_on_node_hover
    \/ add_on_node_click
    \/ render

SpecWidget == InitWidget /\ [][NextWidget]_vars

(***************************************************************************)
(* Vocabulary of the properties                                            *)
(***************************************************************************)
LayoutDone == pc = "done" /\ entry = "layout"
SquarifyDone == pc = "done" /\ entry = "squarify"

Items == layout_result.leaves \o layout_result.frames

PositiveSizes(t) == \A i \in Nodes(t) : FLt(F(0), size(t, i))
PositiveRect(r) == FLt(F(0), r.width) /\ FLt(F(0), r.height)
SomeZeroSize(t) == \E i \in Nodes(t) : FEq(size(t, i), F(0))
IsLeaf(t, i) == children(t, i) = <<>>

IsAncestor(t, a, b) == IsAncestorIn(t.parent, a, b)

Related(t, a, b) == a = b \/ IsAncestor(t, a, b) \/ IsAncestor(t, b, a)

SameRect(a, b) ==
    /\ FEq(a.x, b.x)
    /\ FEq(a.y, b.y)
    /\ FEq(a.width, b.width)
    /\ FEq(a.height, b.height)

WellDefined(r) == IsNum(r.x) /\ IsNum(r.y) /\ IsNum(r.width) /\ IsNum(r.height)

Count(seq, n) == Cardinality({i \in DOMAIN seq : seq[i].node_ = n})

FAbs(a) == IF IsNaN(a) THEN a ELSE [a EXCEPT !.s = 1]

\* |a - b| <= 2^-bits * max(|a|, |b|); false when either is NaN
Close(a, b, bits) ==
    FLe(FAbs(FSub(a, b)),
        FMul([k |-> "num", s |-> 1, m |-> 1, e |-> -bits],
             FMax(FAbs(a), FAbs(b))))

(***************************************************************************)
(* C1  Containment: for a tree with strictly positive sizes and an         *)
(* available_rect of positive width and height, every item layout returns  *)
(* is within_bounds of the rectangle of its parent's frame item and        *)
(* within_bounds of available_rect.                                        *)
(***************************************************************************)
C1_Containment ==
    (LayoutDone /\ PositiveSizes(tree) /\ PositiveRect(available_rect)) =>
        \A i \in DOMAIN Items :
            /\ within_bounds(Items[i].rect_, available_rect)
            /\ Items[i].node_ # 1 =>
                   \E j \in DOMAIN layout_result.frames :
                       /\ layout_result.frames[j].node_ =
                              tree.parent[Items[i].node_]
                       /\ within_bounds(Items[i].rect_,
                                        layout_result.frames[j].rect_)

(***************************************************************************)
(* C2  Non-overlap: for a tree with strictly positive sizes and an         *)
(* available_rect of positive width and height, overlaps is false for      *)
(* every two distinct items of the result of which neither node is an      *)
(* ancestor of the other.                                                  *)
(***************************************************************************)
C2_NonOverlap ==
    (LayoutDone /\ PositiveSizes(tree) /\ PositiveRect(available_rect)) =>
        \A i, j \in DOMAIN Items :
            ~Related(tree, Items[i].node_, Items[j].node_) =>
                ~overlaps(Items[i].rect_, Items[j].rect_)

(***************************************************************************)
(* C3  Area conservation: in the result of layout, for every node that     *)
(* has children, the sum of the areas of its children's rectangles equals  *)
(* the area of the node's own rectangle, up to floating-point tolerance    *)
(* (a relative difference of 2^-20).                                       *)
(***************************************************************************)
RECURSIVE SumChildAreas(_, _, _)
\* the sum of area(rect_) over the items of seq whose node is a child of n
SumChildAreas(t, seq, n) ==
    IF seq = <<>> THEN F(0)
    ELSE IF t.parent[Head(seq).node_] = n
    THEN FAdd(area(Head(seq).rect_), SumChildAreas(t, Tail(seq), n))
    ELSE SumChildAreas(t, Tail(seq), n)

AreaConserved(n) ==
    \E j \in DOMAIN layout_result.frames :
        /\ layout_result.frames[j].node_ = n
        /\ Close(SumChildAreas(tree, Items, n),
                 area(layout_result.frames[j].rect_), 20)

C3_AreaConservation ==
    (LayoutDone /\ PositiveRect(available_rect) /\ ~parallelize) =>
        \A n \in Nodes(tree) : ~IsLeaf(tree, n) => AreaConserved(n)

(***************************************************************************)
(* C4  layout returns exactly one item per node: leaves holds one item for *)
(* each childless node and no other, frames one item for each node with    *)
(* children and no other.                                                  *)
(***************************************************************************)
C4_OneItemPerNode ==
    (LayoutDone /\ PositiveSizes(tree) /\ PositiveRect(available_rect)) =>
        \A n \in Nodes(tree) :
            /\ Count(layout_result.leaves, n) = (IF IsLeaf(tree, n) THEN 1 ELSE 0)
            /\ Count(layout_result.frames, n) = (IF IsLeaf(tree, n) THEN 0 ELSE 1)

(***************************************************************************)
(* C5  Degenerate safety: for a tree in which some node has size 0, every  *)
(* rectangle layout returns has well-defined (finite, non-NaN) x, y, width *)
(* and height, and a zero-size node gets a zero-area rectangle.            *)
(***************************************************************************)
C5_DegenerateSafety ==
    (LayoutDone /\ SomeZeroSize(tree) /\ PositiveRect(available_rect)) =>
        \A i \in DOMAIN Items :
            /\ WellDefined(Items[i].rect_)
            /\ FEq(size(tree, Items[i].node_), F(0)) =>
                   FEq(area(Items[i].rect_), F(0))

(***************************************************************************)
(* C6  Leaf identity: for a root without children (of positive size, in a  *)
(* rectangle of positive width and height) layout returns exactly one leaf *)
(* item, for the root, whose rectangle has the x, y, width and height of   *)
(* available_rect, and returns no frames.                                  *)
(***************************************************************************)
C6_LeafIdentity ==
    (LayoutDone /\ IsLeaf(tree, 1) /\ PositiveSizes(tree)
                /\ PositiveRect(available_rect)) =>
        /\ Len(layout_result.leaves) = 1
        /\ layout_result.leaves[1].node_ = 1
        /\ SameRect(layout_result.leaves[1].rect_, available_rect)
        /\ layout_result.frames = <<>>

(***************************************************************************)
(* C7  Single-child identity: whenever a node has exactly one child (in a  *)
(* tree of positive sizes laid out sequentially in a rectangle of positive *)
(* width and height), the rectangle assigned to the child has the x, y,    *)
(* width and height of the rectangle of the node.                          *)
(***************************************************************************)
C7_SingleChildIdentity ==
    (LayoutDone /\ PositiveSizes(tree) /\ PositiveRect(available_rect)
                /\ ~parallelize) =>
        \A n \in Nodes(tree) :
            Len(children(tree, n)) = 1 =>
                \E i, j \in DOMAIN Items :
                    /\ Items[i].node_ = n
                    /\ Items[j].node_ = children(tree, n)[1]
                    /\ SameRect(Items[j].rect_, Items[i].rect_)

(***************************************************************************)
(* C8  layout with parallelize = true returns the pairs that layout with   *)
(* parallelize = false returns for the same input; the sequential call     *)
(* returns one pair for every node, so the parallel call has a pair for    *)
(* every node of the tree (it has visited every subtree) when it returns.  *)
(***************************************************************************)
C8_ParallelVisitsAll ==
    (LayoutDone /\ parallelize /\ PositiveSizes(tree)
                /\ PositiveRect(available_rect)) =>
        \A n \in Nodes(tree) : Count(Items, n) = 1

(***************************************************************************)
(* C9  For an available_rect of zero width or zero height, layout returns  *)
(* no items, or only items whose rectangles have zero area and non-NaN     *)
(* coordinates.                                                            *)
(***************************************************************************)
C9_EmptyRect ==
    (LayoutDone /\ PositiveSizes(tree) /\ ~PositiveRect(available_rect)) =>
        \A i \in DOMAIN Items :
            /\ WellDefined(Items[i].rect_)
            /\ FEq(area(Items[i].rect_), F(0))

(***************************************************************************)
(* C10  Reference scenario: squarify of seven children of sizes            *)
(* 6, 6, 4, 3, 2, 2, 1 in the rectangle {0, 0, 6, 4} returns 7 rectangles, *)
(* one per child, pairwise non-overlapping, within the rectangle, each of  *)
(* area exactly equal to its child's size.                                 *)
(***************************************************************************)
PaperDone == SquarifyDone /\ tree = PaperTree /\ available_rect = PaperRect

\* 7 rectangles, one per child, pairwise non-overlapping, within the rectangle
PaperTiling ==
    /\ Len(results) = 7
    /\ \A n \in 2..8 : Count(results, n) = 1
    /\ \A i \in DOMAIN results :
           /\ within_bounds(results[i].rect_, PaperRect)
           /\ \A j \in DOMAIN results :
                  i # j => ~overlaps(results[i].rect_, results[j].rect_)

C10_PaperExample ==
    PaperDone =>
        /\ PaperTiling
        /\ \A i \in DOMAIN results :
               FEq(area(results[i].rect_), size(tree, results[i].node_))

(***************************************************************************)
(* C10, as it holds: the same, each rectangle of area equal to its child's *)
(* size to within a relative difference of 2^-22.                          *)
(***************************************************************************)
C10_PaperExampleRounded ==
    PaperDone =>
        /\ PaperTiling
        /\ \A i \in DOMAIN results :
               Close(area(results[i].rect_), size(tree, results[i].node_), 22)

\* squarify has returned in the reference scenario, after more than one row,
\* with a rectangle whose area is not its child's size
C10_Witness ==
    /\ PaperDone
    /\ Len(results) = 7
    /\ \E i \in DOMAIN results :
           ~FEq(results[i].rect_.x, F(0)) /\ ~FEq(results[i].rect_.y, F(0))
    /\ \E i \in DOMAIN results :
           ~FEq(area(results[i].rect_), size(tree, results[i].node_))

(***************************************************************************)
(* C11  Two-children split: layout of a root with two leaf children of     *)
(* sizes 60 and 40 in {0, 0, 100, 100} returns exactly 2 leaf rectangles   *)
(* that do not overlap, lie within the square and together cover the whole *)
(* square, with areas 60 and 40 respectively.                              *)
(***************************************************************************)
SimpleCaseDone ==
    /\ LayoutDone
    /\ ~parallelize
    /\ tree = SimpleCaseTree
    /\ available_rect = SimpleCaseRect

\* the rectangle layout_result.leaves holds for node n
LeafRect(n) ==
    layout_result.leaves[CHOOSE i \in DOMAIN layout_result.leaves :
                             layout_result.leaves[i].node_ = n].rect_

\* exactly 2 leaf rectangles, one for each child, not overlapping, within
\* the square, and leaving none of the square's area uncovered
SimpleCaseTiling ==
    /\ Len(layout_result.leaves) = 2
    /\ Count(layout_result.leaves, 2) = 1
    /\ Count(layout_result.leaves, 3) = 1
    /\ ~overlaps(LeafRect(2), LeafRect(3))
    /\ within_bounds(LeafRect(2), SimpleCaseRect)
    /\ within_bounds(LeafRect(3), SimpleCaseRect)
    /\ FEq(FAdd(area(LeafRect(2)), area(LeafRect(3))), area(SimpleCaseRect))

C11_TwoChildrenSplit ==
    SimpleCaseDone =>
        /\ SimpleCaseTiling
        /\ FEq(area(LeafRect(2)), F(60))
        /\ FEq(area(LeafRect(3)), F(40))

(***************************************************************************)
(* C11, as it holds: the same, with areas 6000 and 4000 respectively, the  *)
(* shares 60/100 and 40/100 of the square's area of 10000.                 *)
(***************************************************************************)
C11_TwoChildrenSplitScaled ==
    SimpleCaseDone =>
        /\ SimpleCaseTiling
        /\ FEq(area(LeafRect(2)), F(6000))
        /\ FEq(area(LeafRect(3)), F(4000))

\* layout has returned in the scenario, the child of size 60 in a rectangle
\* of the square's full height and the child of size 40 beside it
C11_Witness ==
    /\ SimpleCaseDone
    /\ Len(layout_result.leaves) = 2
    /\ SameRect(LeafRect(2), Rect(F(0), F(0), F(60), F(100)))
    /\ SameRect(LeafRect(3), Rect(F(60), F(0), F(40), F(100)))

(***************************************************************************)
(* C12  hit_test(point, rects, offset) returns the node of the first item, *)
(* in sequence order, whose rectangle translated by offset contains point  *)
(* (boundary included), and nullptr exactly when no item's translated      *)
(* rectangle contains it.  The translated rectangle is the Rect of the     *)
(* same width and height at offset + (x, y); it contains the points from   *)
(* its rect_min to its rect_max.                                           *)
(***************************************************************************)
translated(r, offset) ==
    Rect(FAdd(offset.x, r.x), FAdd(offset.y, r.y), r.width, r.height)

contains(r, point) ==
    /\ FLe(rect_min(r).x, point.x) /\ FLe(point.x, rect_max(r).x)
    /\ FLe(rect_min(r).y, point.y) /\ FLe(point.y, rect_max(r).y)

HitTestReturned == probe.fn = "hit_test" /\ probe.returned

\* the positions of the items whose translated rectangle contains the point
Hits ==
    {i \in DOMAIN probe.args[2] :
        contains(translated(probe.args[2][i].rect_, probe.args[3]),
                 probe.args[1])}

C12_HitTestFirst ==
    HitTestReturned =>
        /\ (probe.result = nullptr) <=> (Hits = {})
        /\ \A i \in Hits :
               (\A j \in Hits : i <= j) =>
                   probe.result = probe.args[2][i].node_

\* hit_test has returned the node of the first of two items that both
\* contain the point, which lies on the boundary of the first
C12_Witness ==
    /\ HitTestReturned
    /\ Hits = {1, 2}
    /\ probe.result = 1
    /\ ~hovered_strictly(probe.args[1], probe.args[2][1], probe.args[3])

\* hit_test has returned nullptr for items none of which contains the point
C12_WitnessNone ==
    /\ HitTestReturned
    /\ Len(probe.args[2]) = MaxItems
    /\ probe.result = nullptr

(***************************************************************************)
(* C13  For the leaves of a layout of strictly positive, consistent sizes, *)
(* any point that is not on the boundary of a leaf rectangle is contained  *)
(* in the rectangle of at most one leaf, so hit_test's answer for such a   *)
(* point does not depend on the order of the leaves sequence.              *)
(***************************************************************************)
\* the least float greater than a, for a >= 0 (the least above 0 is 2^-149)
NextUp(a) ==
    IF IsZero(a) THEN [k |-> "num", s |-> 1, m |-> 1, e |-> -149]
    ELSE LET free == 24 - BitLen(a.m)
         IN  Canon(1, a.m * 2^free + 1, a.e - free)

NoOffset == ImVec2(F(0), F(0))

\* the points just inside the near edges of the leaves: when any point is
\* strictly inside two leaves, one of these is
LeafPoints ==
    {ImVec2(NextUp(layout_result.leaves[i].rect_.x),
            NextUp(layout_result.leaves[j].rect_.y)) :
        i \in DOMAIN layout_result.leaves, j \in DOMAIN layout_result.leaves}

OnBoundary(point, rect) ==
    hovered(point, rect, NoOffset) /\ ~hovered_strictly(point, rect, NoOffset)

Reverse(seq) == [i \in DOMAIN seq |-> seq[Len(seq) + 1 - i]]

C13_OneLeafPerPoint ==
    (LayoutDone /\ PositiveSizes(tree) /\ PositiveRect(available_rect)) =>
        \A point \in LeafPoints :
            (\A i \in DOMAIN layout_result.leaves :
                 ~OnBoundary(point, layout_result.leaves[i])) =>
                /\ Cardinality({i \in DOMAIN layout_result.leaves :
                       hovered(point, layout_result.leaves[i], NoOffset)}) <= 1
                /\ hit_test(point, layout_result.leaves, NoOffset) =
                       hit_test(point, Reverse(layout_result.leaves), NoOffset)

(***************************************************************************)
(* C14  overlaps(a, b) is true exactly when the interiors of a and b       *)
(* intersect, for all rectangles with non-negative width and height        *)
(* (zero-width or zero-height ones included); rectangles that only share   *)
(* an edge or a corner do not overlap.                                     *)
(***************************************************************************)
OverlapsReturned == probe.fn = "overlaps" /\ probe.returned

NonNegative(r) == FGe(r.width, F(0)) /\ FGe(r.height, F(0))

\* a and b have a common interior point: both intervals of x and both of y
\* share more than an end; a rectangle of no width or height has no interior
InteriorsIntersect(a, b) ==
    /\ FLt(FMax(rect_min(a).x, rect_min(b).x), FMin(rect_max(a).x, rect_max(b).x))
    /\ FLt(FMax(rect_min(a).y, rect_min(b).y), FMin(rect_max(a).y, rect_max(b).y))

C14_OverlapsInteriors ==
    (OverlapsReturned /\ NonNegative(probe.args[1])
                      /\ NonNegative(probe.args[2])) =>
        (probe.result <=> InteriorsIntersect(probe.args[1], probe.args[2]))

(***************************************************************************)
(* C15  within_bounds(rect, bounds) is true exactly when every point of    *)
(* rect lies in bounds (boundary included): within_bounds(r, r) is true    *)
(* for every rectangle r, and a rectangle that starts below the origin of  *)
(* bounds or extends past its far edge is rejected.  A rectangle holds the *)
(* points from its rect_min to its rect_max.                               *)
(***************************************************************************)
WithinBoundsReturned == probe.fn = "within_bounds" /\ probe.returned

\* the corners of the rectangles at the bounds and the points around them;
\* a rectangle of GeometryRects within no other rectangle has one outside
NearPoints ==
    {ImVec2(F(x), F(y)) :
        x \in (-MaxOffset - 1)..(MaxOffset + MaxDim + 1),
        y \in (-MaxOffset - 1)..(MaxOffset + MaxDim + 1)}

EveryPointInBounds(rect, bounds) ==
    \A point \in NearPoints : contains(rect, point) => contains(bounds, point)

StartsBelow(rect, bounds) ==
    FLt(rect.x, bounds.x) \/ FLt(rect.y, bounds.y)

ExtendsPast(rect, bounds) ==
    \/ FLt(rect_max(bounds).x, rect_max(rect).x)
    \/ FLt(rect_max(bounds).y, rect_max(rect).y)

SizeReturned ==
    probe.fn \in {"FileSystemNode::size", "ASTNode::size"} /\ probe.returned

RECURSIVE SumOver(_, _)

\* the sum of the sizes returned for the nodes cs
SumOver(sizes, cs) ==
    IF cs = <<>> THEN F(0)
    ELSE FAdd(sizes[Head(cs)], SumOver(sizes, Tail(cs)))

C16_SizeIsSumOfChildren ==
    SizeReturned =>
        \A i \in Nodes(probe.args[1]) :
            children(probe.args[1], i) # <<>> =>
                FEq(probe.result[i],
                    SumOver(probe.result, children(probe.args[1], i)))

(***************************************************************************)
(* C17  Tie-break: squarify takes children of equal size from its          *)
(* max-first queue in input order (stable), for every input order and      *)
(* every number of equal-size children: of two children of equal size, the *)
(* later in children() is never taken while the earlier is in the queue.   *)
(***************************************************************************)
C17_StableTieBreak ==
    pc = "loop" =>
        \A a \in remaining_children :
            \A b \in Range(children(tree, call.node_)) :
                (a < b /\ FEq(size(tree, a), size(tree, b))) =>
                    b \in remaining_children

(***************************************************************************)
(* C18  Area proportionality: every rectangle emitted by row placement has *)
(* area equal to its node's size in weight space; in layout's result every *)
(* item's area equals node.size() * area(available_rect) / root.size(),    *)
(* for every tree with strictly positive sizes.  Equal is taken as equal   *)
(* to within a relative difference of 2^-20.                               *)
(***************************************************************************)
\* squarify works in weight space: layout has scaled the rectangle, or the
\* caller of squarify gives a rectangle of the area of the children's sizes
WeightSpace == entry = "layout" \/ FEq(area(available_rect), size(tree, 1))

\* the rectangles squarify holds are those row placement has emitted
RowPlacementAreas ==
    \A i \in DOMAIN results :
        Close(area(results[i].rect_), size(tree, results[i].node_), 20)

ProportionalArea(item) ==
    Close(area(item.rect_),
          FDiv(FMul(size(tree, item.node_), area(available_rect)),
               size(tree, 1)),
          20)

C18_AreaProportionality ==
    PositiveSizes(tree) =>
        /\ WeightSpace => RowPlacementAreas
        /\ LayoutDone => \A i \in DOMAIN Items : ProportionalArea(Items[i])

(***************************************************************************)
(* C19  Greedy acceptance: in squarify's loop the next-largest remaining   *)
(* child c is pushed onto the current row if and only if                   *)
(* worst_aspect_ratio(row.size + c.size, row.max_element_size, c.size,     *)
(* row.w) <= row.current_worst; otherwise the row is flushed unchanged     *)
(* (without c) and a new row is started with c as its only member against  *)
(* the remaining rectangle.                                                *)
(***************************************************************************)
\* the child an iteration of the loop has taken from the queue
Taken == CHOOSE c \in remaining_children : c \notin remaining_children'

Accepted(c) ==
    FLe(worst_aspect_ratio(FAdd(current_row.size, size(tree, c)),
                           current_row.max_element_size, size(tree, c),
                           current_row.w),
        current_row.current_worst)

\* the items from position from on are of the nodes of elements, in order
PlacesExactly(items, from, elements) ==
    /\ Len(items) = from + Len(elements)
    /\ \A i \in DOMAIN elements : items[from + i].node_ = elements[i]

GreedyStep ==
    (pc = "loop" /\ pc' = "loop" /\ remaining_children' # remaining_children) =>
        /\ remaining_children' = remaining_children \ {Taken}
        /\ \A o \in remaining_children :
               ~FLt(size(tree, Taken), size(tree, o))
        /\ Accepted(Taken) =>
               /\ current_row'.elements = Append(current_row.elements, Taken)
               /\ current_row'.rect = current_row.rect
               /\ results' = results
        /\ ~Accepted(Taken) =>
               /\ SubSeq(results', 1, Len(results)) = results
               /\ PlacesExactly(results', Len(results), current_row.elements)
               /\ current_row'.elements = <<Taken>>
               /\ current_row'.rect =
                      layoutrow(tree, current_row).remaining_space

AspectRatio(r) == FMax(FDiv(r.width, r.height), FDiv(r.height, r.width))

RECURSIVE LargestAspectRatio(_)

\* the largest aspect ratio of the rectangles of the items, which are some
LargestAspectRatio(items) ==
    IF Len(items) = 1 THEN AspectRatio(items[1].rect_)
    ELSE FMax(AspectRatio(items[1].rect_), LargestAspectRatio(Tail(items)))

\* squarify holds a row, of children of positive size
RowBuilt ==
    /\ pc = "loop"
    /\ \A i \in DOMAIN current_row.elements :
           FLt(F(0), size(tree, current_row.elements[i]))

C20_ClosedFormWorst ==
    RowBuilt =>
        LET emitted == LargestAspectRatio(layoutrow(tree, current_row).results)
        IN  \/ FEq(current_row.current_worst, emitted)
            \/ Close(current_row.current_worst, emitted, 20)

(***************************************************************************)
(* C21  Row invariant: after the constructor and after every push          *)
(* performed by squarify, row.size equals the sum of the members' sizes,   *)
(* row.max_element_size equals the largest member size,                    *)
(* row.min_element_size equals the smallest member size, and the members   *)
(* are stored in non-increasing size order.                                *)
(***************************************************************************)
RECURSIVE SumOfMembers(_, _)

\* the sum of the sizes of the nodes of elements, first to last
SumOfMembers(t, elements) ==
    IF elements = <<>> THEN F(0)
    ELSE FAdd(SumOfMembers(t, SubSeq(elements, 1, Len(elements) - 1)),
              size(t, elements[Len(elements)]))

\* squarify holds a row: its constructor has run, and its pushes
RowHeld == pc = "loop"

SquarifyReturned == SquarifyDone \/ pc = "recurse"

C22_WitnessEmpty ==
    /\ SquarifyReturned
    /\ children(tree, call.node_) = <<>>
    /\ results = <<>>

(***************************************************************************)
(* C23  Row placement orientation: when the row's rectangle has            *)
(* height > width, the row is a strip at the top spanning the full width,  *)
(* of height row.size / width, with members placed left to right starting  *)
(* at the rectangle's x, each of width size / row_height and each abutting *)
(* the previous one; when width > height the symmetric rule applies (strip *)
(* on the left spanning the full height, members stacked top to bottom).   *)
(***************************************************************************)
\* the items layoutrow emits for the row squarify holds
Emitted == layoutrow(tree, current_row).results

\* a and b are equal, or differ by float rounding (relatively by 2^-20)
Same(a, b) == FEq(a, b) \/ Close(a, b, 20)

StripAtTop ==
    LET r == current_row.rect
        row_height == FDiv(current_row.size, r.width)
    IN  /\ Len(Emitted) = Len(current_row.elements)
        /\ Emitted[1].rect_.x = r.x
        /\ \A i \in DOMAIN Emitted :
               /\ Emitted[i].node_ = current_row.elements[i]
               /\ Emitted[i].rect_.y = r.y
               /\ Emitted[i].rect_.height = row_height
               /\ Emitted[i].rect_.width =
                      FDiv(size(tree, Emitted[i].node_), row_height)
               /\ i > 1 => Same(Emitted[i].rect_.x,
                                rect_max(Emitted[i - 1].rect_).x)
        /\ Same(rect_max(Emitted[Len(Emitted)].rect_).x, rect_max(r).x)

StripOnLeft ==
    LET r == current_row.rect
        row_width == FDiv(current_row.size, r.height)
    IN  /\ Len(Emitted) = Len(current_row.elements)
        /\ Emitted[1].rect_.y = r.y
        /\ \A i \in DOMAIN Emitted :
               /\ Emitted[i].node_ = current_row.elements[i]
               /\ Emitted[i].rect_.x = r.x
               /\ Emitted[i].rect_.width = row_width
               /\ Emitted[i].rect_.height =
                      FDiv(size(tree, Emitted[i].node_), row_width)
               /\ i > 1 => Same(Emitted[i].rect_.y,
                                rect_max(Emitted[i - 1].rect_).y)
        /\ Same(rect_max(Emitted[Len(Emitted)].rect_).y, rect_max(r).y)

C23_RowOrientation ==
    RowHeld =>
        /\ FLt(current_row.rect.width, current_row.rect.height) => StripAtTop
        /\ FLt(current_row.rect.height, current_row.rect.width) => StripOnLeft

(***************************************************************************)
(* C24  Remaining rectangle: the rectangle returned by layoutrow together  *)
(* with the strip occupied by the row partitions the row's rectangle: the  *)
(* remaining rectangle does not overlap any emitted member rectangle, lies *)
(* within the original rectangle, keeps the original extent along the      *)
(* strip direction, and has area equal to the original area minus          *)
(* row.size (to within float rounding: with row.size it makes the original *)
(* area, relatively to 2^-20).                                             *)
(***************************************************************************)
\* the remaining rectangle layoutrow returns for the row squarify holds
Remaining == layoutrow(tree, current_row).remaining_space

KeepsExtent ==
    IF FLt(current_row.rect.width, current_row.rect.height)
    THEN /\ Remaining.x = current_row.rect.x
         /\ Remaining.width = current_row.rect.width
    ELSE /\ Remaining.y = current_row.rect.y
         /\ Remaining.height = current_row.rect.height

C24_RemainingRectangle ==
    RowHeld =>
        /\ \A i \in DOMAIN Emitted : ~overlaps(Remaining, Emitted[i].rect_)
        /\ within_bounds(Remaining, current_row.rect)
        /\ KeepsExtent
        /\ Same(FAdd(area(Remaining), current_row.size),
                area(current_row.rect))

(***************************************************************************)
(* C25  Scaling: for root.size() > 0 and an available_rect of positive     *)
(* width and height, the weight-space rectangle layout builds is at the    *)
(* origin, has the width:height ratio of available_rect and an area equal  *)
(* to root.size() (to within float rounding); after rescaling, the item of   *)
(* the root has a rectangle equal to available_rect.                        *)
(***************************************************************************)
\* layout has built available_rect_scaled and is about to traverse the root
Scaled ==
    /\ entry = "layout"
    /\ pc = "traverse"
    /\ Items = <<>>
    /\ Len(stack) = 1

WeightSpaceRect == Head(stack).rect_

ScalingPrecondition ==
    FLt(F(0), size(tree, 1)) /\ PositiveRect(available_rect)

RootItems == {i \in DOMAIN Items : Items[i].node_ = 1}

C25_Scaling ==
    ScalingPrecondition =>
        /\ Scaled =>
               /\ FEq(WeightSpaceRect.x, F(0))
               /\ FEq(WeightSpaceRect.y, F(0))
               /\ Same(FMul(WeightSpaceRect.width, available_rect.height),
                       FMul(WeightSpaceRect.height, available_rect.width))
               /\ Same(area(WeightSpaceRect), size(tree, 1))
        /\ LayoutDone =>
               /\ RootItems # {}
               /\ \A i \in RootItems : SameRect(Items[i].rect_, available_rect)

\* the same with the rectangle of the root compared to within float rounding
C25_ScalingRounded ==
    (ScalingPrecondition /\ LayoutDone) =>
        \A i \in RootItems :
            /\ Same(Items[i].rect_.x, available_rect.x)
            /\ Same(Items[i].rect_.y, available_rect.y)
            /\ Same(Items[i].rect_.width, available_rect.width)
            /\ Same(Items[i].rect_.height, available_rect.height)

(***************************************************************************)
(* C26  squarify's loop invariant: when squarify is called with a          *)
(* rectangle whose area equals the sum of the children's sizes, all        *)
(* strictly positive, then after every flush the area of the remaining     *)
(* rectangle equals the sum of the sizes of the children not yet placed    *)
(* (the seed of the new row and the queue), its width and height are       *)
(* non-negative, and after the final flush the remaining area is 0.        *)
(***************************************************************************)
\* the children of the running squarify that no flush has placed
Unplaced ==
    {c \in Range(children(tree, call.node_)) :
        \A i \in DOMAIN results : results[i].node_ # c}

UnplacedSize == SumSizes(tree, SeqFrom(Unplaced, 1), F(0))

CalledWithMatchingArea ==
    /\ \A c \in Range(children(tree, call.node_)) : FLt(F(0), size(tree, c))
    /\ FEq(area(call.rect_), size(tree, call.node_))

AfterFlush == RowHeld /\ results # <<>>
BeforeFinalFlush == RowHeld /\ remaining_children = {}

C26_LoopInvariant ==
    CalledWithMatchingArea =>
        /\ AfterFlush =>
               /\ Same(area(current_row.rect), UnplacedSize)
               /\ FLe(F(0), current_row.rect.width)
               /\ FLe(F(0), current_row.rect.height)
        /\ BeforeFinalFlush =>
               /\ FEq(area(Remaining), F(0))
               /\ FLe(F(0), Remaining.width)
               /\ FLe(F(0), Remaining.height)

(***************************************************************************)
(* C27  Termination: squarify finishes after exactly one queue pop per     *)
(* child, also when consecutive candidates give equal worst aspect ratios, *)
(* and layout returns for every finite tree with strictly positive sizes.  *)
(***************************************************************************)
Pops(queue_before, queue_after) ==
    Cardinality(queue_before) - Cardinality(queue_after)

\* the children of the running squarify that it has taken from the queue
Popped == Range(children(tree, call.node_)) \ remaining_children

\* seeding pops one of all the children, every iteration pops one more, and
\* the loop is left only with the queue empty
OnePopPerChild ==
    /\ (pc = "squarify" /\ pc' = "loop") =>
           Pops(Range(children(tree, call.node_)), remaining_children') = 1
    /\ (pc = "loop" /\ pc' = "loop") =>
           /\ remaining_children' \subseteq remaining_children
           /\ Pops(remaining_children, remaining_children') = 1
    /\ (pc = "loop" /\ pc' # "loop") =>
           /\ remaining_children = {}
           /\ Cardinality(Popped) = Len(children(tree, call.node_))

SquarifyFinishes == (pc = "squarify") ~> SquarifyReturned

LayoutReturns == (entry = "layout" /\ PositiveSizes(tree)) ~> LayoutDone

\* every step is a step the fairness of SpecFair is about
StepAdvances == (Advance /\ progress' # progress) \/ TraverseLeaf

C27_Termination ==
    /\ [][OnePopPerChild /\ StepAdvances]_vars
    /\ SquarifyFinishes
    /\ LayoutReturns

\* the candidate at the top of the queue gives the row the worst aspect
\* ratio it already has
TieAtTop ==
    /\ pc = "loop"
    /\ \E c \in top(tree, remaining_children) :
           FEq(worst_aspect_ratio(FAdd(current_row.size, size(tree, c)),
                                  current_row.max_element_size,
                                  size(tree, c), current_row.w),
               current_row.current_worst)

\* a tie is met in a tree of strictly positive sizes
C27_WitnessTie == TieAtTop /\ PositiveSizes(tree)

\* layout has returned for a tree of strictly positive sizes whose root has
\* three children
C27_Witness ==
    /\ LayoutDone
    /\ PositiveSizes(tree)
    /\ Len(children(tree, 1)) = 3
    /\ Len(layout_result.leaves) = 3

(***************************************************************************)
(* C28  No zero-size node reaches the engine from the collaborators: for   *)
(* every FileSystemNode (file, empty directory, directory with children)   *)
(* and every ASTNode (leaf of any metrics kind, or node with children),    *)
(* size() >= 1.                                                            *)
(***************************************************************************)
CollaboratorSizeReturned ==
    /\ probe.fn \in {"FileSystemNode::size", "ASTNode::size",
                      "NodeMetrics::size"}
    /\ probe.returned

C28_CollaboratorSizeAtLeastOne ==
    CollaboratorSizeReturned =>
        \A i \in DOMAIN probe.result : FGe(probe.result[i], F(1))

\* a directory with an empty directory and a file of size 0 in it
C28_Witness ==
    /\ probe.fn = "FileSystemNode::size"
    /\ probe.returned
    /\ LET t == probe.args[1]
       IN  \E i, j \in Nodes(t) :
               /\ i # j
               /\ t.parent[i] = 1 /\ t.parent[j] = 1
               /\ IsLeaf(t, i) /\ t.is_directory[i]
               /\ IsLeaf(t, j) /\ ~t.is_directory[j] /\ t.leaf_size[j] = 0

\* a FunctionMetrics, a leaf's metrics, whose counters are all 0
C28_WitnessMetrics ==
    /\ probe.fn = "NodeMetrics::size"
    /\ probe.returned
    /\ probe.args[1] = Metrics("FunctionMetrics", 0, 0, 0, 0, 0)

(***************************************************************************)
(* C29  In TreeMapWidget::render, over any sequence of frames, the hover   *)
(* callbacks are invoked in a frame iff the canvas is hovered, hit_test     *)
(* returns a node, and that node differs from the node recorded as hovered *)
(* at the end of the previous frame; each registered hover callback is     *)
(* then invoked exactly once with that node, in registration order.        *)
(***************************************************************************)
\* a step that is a frame: no callback is registered in it
Frame ==
    /\ widget'.frame.rendered
    /\ widget'.node_hover_cbs_ = widget.node_hover_cbs_
    /\ widget'.node_clicked_cbs_ = widget.node_clicked_cbs_

\* the node under the mouse in the frame of the step
UnderMouse ==
    TreeMapWidget_hit_test(widget'.frame.GetMousePos, widget'.rendered_rects_,
                           widget'.frame.GetCursorScreenPos)

\* each callback of cbs once with node n, in the order of registration
OnceEachInOrder(calls, cbs, n) ==
    /\ Len(calls) = Len(cbs)
    /\ \A i \in DOMAIN cbs : calls[i] = <<cbs[i], n>>

HoverStep ==
    Frame =>
        IF /\ widget'.frame.IsItemHovered
           /\ UnderMouse # nullptr
           /\ UnderMouse # widget.hovered_node_
        THEN OnceEachInOrder(widget'.frame.hover_calls,
                             widget.node_hover_cbs_, UnderMouse)
        ELSE widget'.frame.hover_calls = <<>>

C29_HoverCallbacks == [][HoverStep]_vars

\* a frame has run both registered hover callbacks
C29_Witness ==
    /\ widget.constructed
    /\ widget.frame.rendered
    /\ Len(widget.frame.hover_calls) = MaxCallbacks

\* the callbacks have run for the second leaf laid out, which the mouse
\* reaches only from the first
C29_WitnessOtherNode ==
    /\ widget.constructed
    /\ widget.frame.rendered
    /\ widget.frame.hover_calls # <<>>
    /\ Len(widget.rendered_rects_) = 2
    /\ widget.hovered_node_ = widget.rendered_rects_[2].node

\* a frame with the canvas hovered over a node and callbacks registered has
\* run none of them: the node is the one hovered before
C29_WitnessSameNode ==
    /\ widget.constructed
    /\ widget.frame.rendered
    /\ widget.frame.IsItemHovered
    /\ widget.hovered_node_ # nullptr
    /\ widget.node_hover_cbs_ # <<>>
    /\ widget.frame.hover_calls = <<>>

(***************************************************************************)
(* C30  In TreeMapWidget::render, a click is reported (render returns      *)
(* true, selected_node_ changes and the click callbacks run) only in a     *)
(* frame in which the mouse is over a treemap rectangle, and the node      *)
(* selected is the one under the mouse in that frame; a left click made    *)
(* while the mouse is outside the canvas never changes the selection.      *)
(***************************************************************************)
ClickReported ==
    \/ widget'.frame.clicked
    \/ widget'.selected_node_ # widget.selected_node_
    \/ widget'.frame.click_calls # <<>>

ClickStep ==
    Frame =>
        /\ ClickReported =>
               /\ widget'.frame.IsItemHovered
               /\ UnderMouse # nullptr
               /\ widget'.selected_node_ = UnderMouse
        /\ (~widget'.frame.IsItemHovered /\ widget'.frame.IsMouseClicked) =>
               widget'.selected_node_ = widget.selected_node_

C30_ClickOverRectangle == [][ClickStep]_vars

====
